---- MODULE Spec2Model ----
(***************************************************************************)
(* Decision loop, stop/target lifecycle manager and persistent state of    *)
(* the intraday bot (bot.py, risk.py, state.py, telegram_bot.py).          *)
(*                                                                         *)
(* Units.  A price is an integer number of price units of 0.002 quote      *)
(* currency, so that one cent (the grid of Python's round(x, 2)) is 5      *)
(* units and no value of the model lies half-way between two cents.  A     *)
(* quantity is an integer number of lots (one lot = the instrument's       *)
(* qtyStep).  Money (balance, equity, order value) is price * lots.  Time  *)
(* is counted in ticks of 5 seconds.  The loop reads its two timestamps   *)
(* only in time.time() - LAST_x_TS compared with COOLDOWN_SEC, so each is  *)
(* kept as the time elapsed since it was set, capped at COOLDOWN_SEC.      *)
(* The configured multipliers are kept as tenths or hundredths.            *)
(***************************************************************************)
EXTENDS Integers, Sequences, FiniteSets, TLC

\* ------------------------------------------------------------------ bounds
MaxFaults == 1         \* exchange calls that fail (retCode # 0 or exception) in one run
MaxSize == 6           \* the exchange rejects orders that grow a position beyond this

\* ------------------------------------------------------- python's None
None == -1              \* a missing number (prices and times are >= 0)

\* ------------------------------------------------ configuration (bot.py)
SIGNAL_THRESHOLD == 180     \* score is kept in hundredths: 1.8
COOLDOWN_SEC == 6           \* 30 s in ticks of 5 s
RISK_PCT == 1               \* percent: 0.01
ATR_K_SL == 10              \* x10: 1.0
ATR_K_TP1 == 10             \* x10: 1.0
ATR_K_TP2 == 20             \* x10: 2.0
ATR_K_BE == 5               \* x10: 0.5
TRAIL_K_ATR == 10           \* x10: 1.0
FALLBACK_SL_PCT == 8        \* per mille: 0.008
FALLBACK_TP_PCT == 12       \* per mille: 0.012
PARTIAL_TP1_PCT == 30       \* percent: 0.30
PARTIAL_TP2_PCT == 30       \* percent: 0.30
SLEEP_OFF == 1              \* asyncio.sleep(5)
SLEEP_NODATA == 2           \* asyncio.sleep(10)
SLEEP_CYCLE == 3            \* asyncio.sleep(15)

\* --------------------------------------------- what a cycle can be given
PriceSet == {100, 112}           \* last close
AtrSet == {None, 0, 5, 10}           \* ATR of the last feature row (None: missing; 0: warm-up)
BandSet == {<<96, 118>>, <<107, 127>>} \* <<supertrend_lower, supertrend_upper>>
ScoreSet == {100, 200}                \* signal score, hundredths
TaSet == {-50, 0}                     \* technical sub-score, hundredths
EquitySet == {400}                    \* wallet equity
AvailSet == {0, 1000}                 \* available balance
MinValSet == {200}                    \* instrument minOrderAmt
LotStepSet == {1}                     \* instrument qtyStep, in lots
MinQtySet == {1}                      \* instrument minOrderQty, in lots
Outcome == {"ok", "retcode", "raise"} \* an exchange call: retCode 0, retCode # 0, exception
TrailingSet == {"atr", "supertrend"}  \* config "trailing"

\* the value that stands in cyc for an input the cycle never read
Unread(S) == CHOOSE x \in S : TRUE

Max(a, b) == IF a >= b THEN a ELSE b
Min(a, b) == IF a <= b THEN a ELSE b

\* round(num / den, 2): the nearest multiple of one cent (5 units)
Round2(num, den) == 5 * ((2 * num + 5 * den) \div (10 * den))

\* math.floor(value / step) * step for value = num / den lots (risk.py)
_round_step(num, den, step) ==
    IF step <= 0 THEN num \div den ELSE ((num \div den) \div step) * step

\* math.floor(v / step) * step for v = num / den lots (bot.py)
_round_down(num, den, step) ==
    IF step <= 0 THEN num \div den ELSE ((num \div den) \div step) * step

\* ------------------------------------------------------------ state.py
\* _state_cache[SYMBOL] is a function from the keys present to their values
EmptyState == [k \in {} |-> None]

\* dict.get(key, default)
Get(st, key, default) == IF key \in DOMAIN st THEN st[key] ELSE default

\* _state_cache[symbol][key] = value (save_state writes the result to the file)
set_state(st, key, value) ==
    [k \in (DOMAIN st) \cup {key} |-> IF k = key THEN value ELSE st[k]]

\* -------------------------------------------------------------- exchange
Flat == [side |-> "None", size |-> 0, avgPrice |-> 0]

Opposite(side) == IF side = "Buy" THEN "Sell" ELSE "Buy"

\* the exchange quotes prices on a grid: the price of PriceSet nearest to x
OnGrid(x) ==
    CHOOSE g \in PriceSet : \A h \in PriceSet :
        LET dg == IF g >= x THEN g - x ELSE x - g
            dh == IF h >= x THEN h - x ELSE x - h
        IN  dg < dh \/ (dg = dh /\ g <= h)

\* the position after a market order of qty lots filled at price fill
ExFill(p, side, qty, fill) ==
    IF p.size = 0 THEN [side |-> side, size |-> qty, avgPrice |-> fill]
    ELSE IF p.side = side
         THEN [side |-> side, size |-> p.size + qty,
               avgPrice |-> OnGrid((p.size * p.avgPrice + qty * fill) \div (p.size + qty))]
    ELSE IF qty < p.size THEN [p EXCEPT !.size = p.size - qty]
    ELSE IF qty = p.size THEN Flat
    ELSE [side |-> side, size |-> qty - p.size, avgPrice |-> fill]

\* the position after a reduce-only order of q lots on closeSide
ExReduce(p, q) == IF q >= p.size THEN Flat ELSE [p EXCEPT !.size = p.size - q]

\* the exchange can accept (retCode 0) a market order
ExAccepts(p, side, qty) == ExFill(p, side, qty, 1).size <= MaxSize

\* the exchange can accept a reduce-only order or a stop update
ExHasPos(p, side) == p.size > 0 /\ p.side = side

\* ------------------------------------------------------------- risk.py
compute_position_size(equity, price, risk_pct, min_qty, qty_step, min_order_value) ==
    IF price <= 0 \/ equity <= 0 THEN 0
    ELSE LET num0 == Max(equity * risk_pct, min_qty * price)   \* raw_qty = num0 / price
             low  == num0 < min_order_value                     \* raw_qty * price < min_order_value
             num  == IF low THEN min_order_value ELSE num0
         IN  Max(_round_step(num, price, qty_step), min_qty)

compute_initial_sl_tp(price, side, atr) ==
    IF atr # None /\ atr > 0
    THEN [sl  |-> IF side = "Buy" THEN Round2(10 * price - ATR_K_SL * atr, 10)
                                  ELSE Round2(10 * price + ATR_K_SL * atr, 10),
          tp1 |-> IF side = "Buy" THEN Round2(10 * price + ATR_K_TP1 * atr, 10)
                                  ELSE Round2(10 * price - ATR_K_TP1 * atr, 10),
          tp2 |-> IF side = "Buy" THEN Round2(10 * price + ATR_K_TP2 * atr, 10)
                                  ELSE Round2(10 * price - ATR_K_TP2 * atr, 10)]
    ELSE [sl  |-> IF side = "Buy" THEN Round2(price * (1000 - FALLBACK_SL_PCT), 1000)
                                  ELSE Round2(price * (1000 + FALLBACK_SL_PCT), 1000),
          tp1 |-> IF side = "Buy" THEN Round2(price * (1000 + FALLBACK_TP_PCT), 1000)
                                  ELSE Round2(price * (1000 - FALLBACK_TP_PCT), 1000),
          tp2 |-> IF side = "Buy" THEN Round2(price * (1000 + 2 * FALLBACK_TP_PCT), 1000)
                                  ELSE Round2(price * (1000 - 2 * FALLBACK_TP_PCT), 1000)]

\* price >= be_trigger (long) or price <= be_trigger (short), be_trigger = entry -/+ be_k * atr
BeTriggered(side, price, entry_price, atr) ==
    \/ side = "Buy"  /\ 10 * price >= 10 * entry_price + ATR_K_BE * atr
    \/ side = "Sell" /\ 10 * price <= 10 * entry_price - ATR_K_BE * atr

\* price against tp_price = entry -/+ k * atr
TpReached(side, price, entry_price, k, atr) ==
    \/ side = "Buy"  /\ 10 * price >= 10 * entry_price + k * atr
    \/ side = "Sell" /\ 10 * price <= 10 * entry_price - k * atr

\* max(desired_sl, breakeven) of a long raises TypeError when desired_sl is None
BreakevenRaises(side, last_sl, price, entry_price, atr) ==
    side = "Buy" /\ last_sl = None /\ BeTriggered(side, price, entry_price, atr)

\* trail_sl, in tenths of a unit (None: no candidate)
TrailSl10(side, price, atr, trailing, st_lower, st_upper) ==
    IF trailing = "atr"
    THEN (IF side = "Buy" THEN 10 * price - TRAIL_K_ATR * atr ELSE 10 * price + TRAIL_K_ATR * atr)
    ELSE LET band == IF side = "Buy" THEN st_lower ELSE st_upper
         IN  IF band = None THEN None ELSE 10 * band

\* desired_sl after the breakeven and trailing steps, in tenths of a unit (None: none)
DesiredSl10(side, last_sl, entry_price, price, atr, trailing, st_lower, st_upper) ==
    LET d0 == IF last_sl = None THEN None ELSE 10 * last_sl
        breakeven == 10 * Round2(entry_price, 1)
        d1 == IF BeTriggered(side, price, entry_price, atr)
              THEN (IF side = "Buy" THEN Max(d0, breakeven)
                    ELSE IF d0 # None THEN Min(d0, breakeven) ELSE breakeven)
              ELSE d0
        trail_sl == TrailSl10(side, price, atr, trailing, st_lower, st_upper)
    IN  IF trail_sl = None THEN d1
        ELSE IF d1 = None THEN trail_sl
        ELSE IF side = "Buy" THEN Max(d1, trail_sl) ELSE Min(d1, trail_sl)

\* a stop that is also sent when it equals the persisted one
StopMovesOrEqual(side, last_sl, new_sl) ==
    \/ last_sl = None
    \/ side = "Buy"  /\ new_sl >= last_sl
    \/ side = "Sell" /\ new_sl <= last_sl

\* the stop is sent: none persisted yet, or new_sl strictly more protective
StopMoves(side, last_sl, new_sl) ==
    \/ last_sl = None
    \/ side = "Buy"  /\ new_sl > last_sl
    \/ side = "Sell" /\ new_sl < last_sl

\* set_state(symbol, "last_sl", new_sl) runs: set_trading_stop returned (any response)
StopPersisted(res) == res # "raise"

\* a leg that ignores its latch: it fires whenever its price is reached
LegDueUnlatched(took, side, price, entry_price, k, atr) ==
    TpReached(side, price, entry_price, k, atr)

\* a take-profit leg fires: not latched yet and its price reached
LegDue(took, side, price, entry_price, k, atr) ==
    ~took /\ TpReached(side, price, entry_price, k, atr)

\* a leg that is latched only by an order the exchange accepted
LegLatchOnSuccess(took, res) == took \/ res = "ok"

\* the flag of a leg after the leg fired with the order result res
LegLatch(took, res) == TRUE

\* on_partial is invoked: place_order returned (any response)
HookInvoked(res) == res # "raise"

\* a guard that only tests for a missing ATR
NoAtrOnlyMissing(atr) == atr = None

\* line 149: not atr or atr <= 0
NoAtr(atr) == atr = None \/ atr = 0 \/ atr <= 0

\* lines 129-137: the keys update_stops_and_partials creates
InitKeys(st, entry_price) ==
    LET s1 == IF "entry_price" \in DOMAIN st THEN st ELSE set_state(st, "entry_price", entry_price)
        s2 == IF "took_tp1" \in DOMAIN s1 THEN s1 ELSE set_state(s1, "took_tp1", FALSE)
    IN  IF "took_tp2" \in DOMAIN s2 THEN s2 ELSE set_state(s2, "took_tp2", FALSE)

Call(op, side, qty, sl, tp, res) ==
    [op |-> op, side |-> side, qty |-> qty, sl |-> sl, tp |-> tp, res |-> res]

Event(event, side, qty, price, sl, tp, pnl) ==
    [event |-> event, side |-> side, qty |-> qty, price |-> price, sl |-> sl, tp |-> tp, pnl |-> pnl]

\* _reduce_only(qty) for leg op with the order result res, on the record
\* r = [st, ex, calls, journal, valid]; qty = num / 100 lots
_reduce_only(r, op, side, num, lot_step, res) ==
    LET q == Max(_round_step(num, 100, lot_step), 0)
    IN  IF q <= 0 THEN [r EXCEPT !.valid = r.valid /\ res = "ok"]
        ELSE [r EXCEPT
                !.calls = Append(r.calls, Call(op, Opposite(side), q, None, None, res)),
                !.ex = IF res = "ok" THEN ExReduce(r.ex, q) ELSE r.ex,
                !.journal = IF HookInvoked(res)
                            THEN Append(r.journal, Event("partial_take_profit", Opposite(side), q, None, None, None, <<>>))
                            ELSE r.journal,
                !.valid = r.valid /\ (res = "ok" => ExHasPos(r.ex, side))]

\* one take-profit leg (lines 209-211 and 213-215)
TpLeg(r, op, key, side, position_qty, price, entry_price, k, pct, atr, lot_step, took, res) ==
    IF LegDue(took, side, price, entry_price, k, atr)
    THEN LET r1 == _reduce_only(r, op, side, position_qty * pct, lot_step, res)
         IN  [r1 EXCEPT !.st = set_state(r1.st, key, LegLatch(took, res))]
    ELSE [r EXCEPT !.valid = r.valid /\ res = "ok"]

\* update_stops_and_partials: the result [st, ex, calls, journal, valid, raised]
\* for the results stopRes, tp1Res, tp2Res of the exchange calls it makes
\* (valid: a call it does not make has the result "ok", and the exchange
\* answers retCode 0 only to what it can accept)
update_stops_and_partials(st, ex, side, entry_price, position_qty, price, atr, trailing, st_lower, st_upper, lot_step, stopRes, tp1Res, tp2Res) ==
    LET st1 == InitKeys(st, entry_price)
        last_sl == Get(st1, "last_sl", None)
        r0 == [st |-> st1, ex |-> ex, calls |-> <<>>, journal |-> <<>>,
               valid |-> TRUE, raised |-> FALSE]
        idle == stopRes = "ok" /\ tp1Res = "ok" /\ tp2Res = "ok"
    IN  IF NoAtr(atr) THEN [r0 EXCEPT !.valid = idle]
        ELSE IF BreakevenRaises(side, last_sl, price, entry_price, atr)
        THEN [r0 EXCEPT !.valid = idle, !.raised = TRUE]
        ELSE
        LET desired == DesiredSl10(side, last_sl, entry_price, price, atr, trailing, st_lower, st_upper)
            new_sl == Round2(desired, 10)
            r1 == IF desired # None /\ StopMoves(side, last_sl, new_sl)
                  THEN [r0 EXCEPT
                          !.calls = Append(r0.calls, Call("stop", side, 0, new_sl, None, stopRes)),
                          !.st = IF StopPersisted(stopRes) THEN set_state(st1, "last_sl", new_sl) ELSE st1,
                          !.valid = stopRes = "ok" => ExHasPos(ex, side)]
                  ELSE [r0 EXCEPT !.valid = stopRes = "ok"]
            took_tp1 == Get(r1.st, "took_tp1", FALSE)
            took_tp2 == Get(r1.st, "took_tp2", FALSE)
            r2 == TpLeg(r1, "tp1", "took_tp1", side, position_qty, price, entry_price,
                        ATR_K_TP1, PARTIAL_TP1_PCT, atr, lot_step, took_tp1, tp1Res)
        IN  TpLeg(r2, "tp2", "took_tp2", side, position_qty, price, entry_price,
                  ATR_K_TP2, PARTIAL_TP2_PCT, atr, lot_step, took_tp2, tp2Res)

\* a gate whose final comparison is turned round: open when the candidate is
\* at most as protective as the persisted stop
should_add_reversed(st, side, price, atr, st_lower, st_upper, mode) ==
    LET prev_sl == Get(st, "last_sl", None)
    IN  IF prev_sl = None THEN FALSE
        ELSE IF mode = "atr"
        THEN (IF atr = None \/ atr <= 0 THEN FALSE
              ELSE IF side = "Buy" THEN 10 * price - TRAIL_K_ATR * atr <= 10 * prev_sl
              ELSE 10 * price + TRAIL_K_ATR * atr >= 10 * prev_sl)
        ELSE LET band == IF side = "Buy" THEN st_lower ELSE st_upper
                 new_sl == IF band = None THEN prev_sl ELSE band
             IN  IF side = "Buy" THEN new_sl <= prev_sl ELSE new_sl >= prev_sl

\* should_add_position, reading the state persisted at the time of the call
should_add_position(st, side, price, atr, st_lower, st_upper, mode) ==
    LET prev_sl == Get(st, "last_sl", None)
    IN  IF prev_sl = None THEN FALSE
        ELSE IF mode = "atr"
        THEN (IF atr = None \/ atr <= 0 THEN FALSE
              ELSE IF side = "Buy" THEN 10 * price - TRAIL_K_ATR * atr >= 10 * prev_sl
              ELSE 10 * price + TRAIL_K_ATR * atr <= 10 * prev_sl)
        ELSE LET band == IF side = "Buy" THEN st_lower ELSE st_upper
                 new_sl == IF band = None THEN prev_sl ELSE band
             IN  IF side = "Buy" THEN new_sl >= prev_sl ELSE new_sl <= prev_sl

\* ------------------------------------------------------------- bot.py
VARIABLES
    TRADING_ACTIVE,   \* telegram_bot.TRADING_ACTIVE
    pc,               \* where the decision loop stands
    cache,            \* state._state_cache[SYMBOL]
    file,             \* runtime_state.json, the record of SYMBOL
    LAST_ENTRY_TS,    \* None or the time elapsed since the last successful entry
    LAST_ADD_TS,      \* None or the time elapsed since the last successful scale-in
    prev,             \* _prev_has_pos, _prev_side, _prev_size, _prev_entry
    exPos,            \* the position the exchange holds
    trailing,         \* config "trailing"
    cyc,              \* the locals of the cycle in progress
    calls,            \* the exchange calls the cycle made, in order
    journal,          \* the trade records (and notifications) the cycle emitted
    observed,         \* history: the last evaluated cycle saw an open position on the
                      \* exchange (its query returned one, or its entry order succeeded)
    legs,             \* history: reduce-only orders submitted per leg in this position
                      \* lifetime, and the size the position had before its first
                      \* accepted partial close (0: none accepted yet)
    faults,           \* history: exchange calls that failed so far
    on_seen           \* history: /on was given since the process started

vars == <<TRADING_ACTIVE, pc, cache, file, LAST_ENTRY_TS, LAST_ADD_TS, prev,
          exPos, trailing, cyc, calls, journal, observed, legs, faults, on_seen>>

NoPrev == [has_pos |-> FALSE, side |-> "None", size |-> 0, entry |-> None]

NoCyc == [price |-> 0, atr |-> None, st_lower |-> None, st_upper |-> None,
          score |-> 0, ta |-> 0, equity |-> 0, avail |-> 0,
          lot_step |-> 0, min_qty |-> 0, min_val |-> 0,
          query |-> "none", query2 |-> "none", has_pos |-> FALSE, pos |-> Flat,
          prev_observed |-> FALSE, raised |-> FALSE]

NoLegs == [tp1 |-> 0, tp2 |-> 0, orig |-> 0]

\* a process that starts with trading enabled
InitFlagOn ==
    /\ TRADING_ACTIVE = TRUE
    /\ pc = "idle"
    /\ cache = EmptyState
    /\ file = EmptyState
    /\ LAST_ENTRY_TS = None
    /\ LAST_ADD_TS = None
    /\ prev = NoPrev
    /\ exPos = Flat
    /\ trailing \in TrailingSet
    /\ cyc = NoCyc
    /\ calls = <<>>
    /\ journal = <<>>
    /\ observed = FALSE
    /\ legs = NoLegs
    /\ faults = 0
    /\ on_seen = FALSE

Init ==
    /\ TRADING_ACTIVE = FALSE
    /\ pc = "idle"
    /\ cache = EmptyState
    /\ file = EmptyState
    /\ LAST_ENTRY_TS = None
    /\ LAST_ADD_TS = None
    /\ prev = NoPrev
    /\ exPos = Flat
    /\ trailing \in TrailingSet
    /\ cyc = NoCyc
    /\ calls = <<>>
    /\ journal = <<>>
    /\ observed = FALSE
    /\ legs = NoLegs
    /\ faults = 0
    /\ on_seen = FALSE

\* the loop is suspended in an await: other coroutines and the exchange can run
AtAwait == pc \in {"idle", "exit_notify"}

on_cmd ==
    /\ AtAwait
    /\ TRADING_ACTIVE' = TRUE
    /\ on_seen' = TRUE
    /\ UNCHANGED <<pc, cache, file, LAST_ENTRY_TS, LAST_ADD_TS, prev, exPos,
                   trailing, cyc, calls, journal, observed, legs, faults>>

off_cmd ==
    /\ AtAwait
    /\ TRADING_ACTIVE' = FALSE
    /\ UNCHANGED <<pc, cache, file, LAST_ENTRY_TS, LAST_ADD_TS, prev, exPos,
                   trailing, cyc, calls, journal, observed, legs, faults, on_seen>>

\* the process is stopped and started again: module globals are re-initialised
\* and load_state reads the file
Restart ==
    /\ AtAwait
    /\ TRADING_ACTIVE' = FALSE
    /\ pc' = "idle"
    /\ cache' = file
    /\ LAST_ENTRY_TS' = None
    /\ LAST_ADD_TS' = None
    /\ prev' = NoPrev
    /\ cyc' = NoCyc
    /\ calls' = <<>>
    /\ journal' = <<>>
    /\ observed' = FALSE
    /\ on_seen' = FALSE
    /\ UNCHANGED <<file, exPos, trailing, legs, faults>>

\* the exchange closes the position (stop-loss or take-profit hit)
ExchangeClose ==
    /\ pc = "idle"
    /\ exPos.size > 0
    /\ exPos' = Flat
    /\ UNCHANGED <<TRADING_ACTIVE, pc, cache, file, LAST_ENTRY_TS, LAST_ADD_TS, prev,
                   trailing, cyc, calls, journal, observed, legs, faults, on_seen>>

\* a sleep of d ticks, seen from a timestamp: the time elapsed since it was set
Elapse(ts, d) == IF ts = None THEN None ELSE Min(ts + d, COOLDOWN_SEC)

\* a flag test that never finds trading off
FlagNeverOff(flag) == FALSE

\* line 191: not telegram_bot.TRADING_ACTIVE
FlagOff(flag) == ~flag

\* lines 191-193: trading is off
Disabled ==
    /\ pc = "idle"
    /\ FlagOff(TRADING_ACTIVE)
    /\ LAST_ENTRY_TS' = Elapse(LAST_ENTRY_TS, SLEEP_OFF)
    /\ LAST_ADD_TS' = Elapse(LAST_ADD_TS, SLEEP_OFF)
    /\ UNCHANGED <<TRADING_ACTIVE, pc, cache, file, prev, exPos,
                   trailing, cyc, calls, journal, observed, legs, faults, on_seen>>

\* lines 195-198: analyze_once got no candles
NoData ==
    /\ pc = "idle"
    /\ ~FlagOff(TRADING_ACTIVE)
    /\ LAST_ENTRY_TS' = Elapse(LAST_ENTRY_TS, SLEEP_NODATA)
    /\ LAST_ADD_TS' = Elapse(LAST_ADD_TS, SLEEP_NODATA)
    /\ UNCHANGED <<TRADING_ACTIVE, pc, cache, file, prev, exPos,
                   trailing, cyc, calls, journal, observed, legs, faults, on_seen>>

\* lines 195-212 and 361-366: analyze_once (indicators, scoring) or the reading
\* of its result raises before the position query; the exception is caught at
\* the loop boundary
CycleError ==
    /\ pc = "idle"
    /\ ~FlagOff(TRADING_ACTIVE)
    /\ cyc' = [NoCyc EXCEPT !.raised = TRUE]
    /\ pc' = "done"
    /\ UNCHANGED <<TRADING_ACTIVE, cache, file, LAST_ENTRY_TS, LAST_ADD_TS, prev, exPos,
                   trailing, calls, journal, observed, legs, faults, on_seen>>

\* how many of the results are failures
Failed(results) == Cardinality({i \in DOMAIN results : results[i] # "ok"})

\* _has_open_position: <<has_pos, pos>> for the outcome of get_positions
_has_open_position(ex, outcome) ==
    IF outcome = "retcode" THEN <<FALSE, Flat>>
    ELSE IF outcome = "raise" THEN <<TRUE, Flat>>
    ELSE IF ex.size > 0 THEN <<TRUE, ex>>
    ELSE <<FALSE, Flat>>

\* line 215: a full exit is detected
ExitDetected(prev_has_pos, has_pos) == prev_has_pos /\ ~has_pos

\* lines 217-225: the pnl written to the exit record (<<>> is None)
ExitPnl(st, pv, price) ==
    LET e0 == Get(st, "entry_price", None)
        entry_price == IF e0 # None /\ e0 # 0 THEN e0
                       ELSE IF pv.entry # None /\ pv.entry # 0 THEN pv.entry
                       ELSE price
    IN  IF pv.side = "Buy" THEN <<pv.size * (price - entry_price)>>
        ELSE IF pv.side = "Sell" THEN <<pv.size * (entry_price - price)>>
        ELSE <<>>

\* lines 195-234: analysis, instrument and balance queries, position query,
\* and the exit record when a full exit is detected.  The values the cycle
\* fetched are independent of the program's state; each is fixed in cyc by
\* the first step that reads it, and one the cycle never reads is Unread.
Analyze ==
    /\ pc = "idle"
    /\ ~FlagOff(TRADING_ACTIVE)
    /\ \E price \in PriceSet, outcome \in Outcome :
        LET hp == _has_open_position(exPos, outcome)
            exit == ExitDetected(prev.has_pos, hp[1])
        IN  /\ cyc' = [NoCyc EXCEPT !.price = price, !.query = outcome,
                                    !.has_pos = hp[1], !.pos = hp[2],
                                    !.prev_observed = observed]
            /\ observed' = (hp[1] /\ hp[2] # Flat)
            /\ calls' = <<>>
            /\ journal' = IF exit
                          THEN <<Event("exit", "Close", prev.size, price, None, None,
                                       ExitPnl(cache, prev, price))>>
                          ELSE <<>>
            /\ legs' = IF exit THEN NoLegs ELSE legs
            /\ pc' = IF exit THEN "exit_notify" ELSE "branch"
            /\ faults' = faults + Failed(<<outcome>>)
            /\ faults' <= MaxFaults
    /\ UNCHANGED <<TRADING_ACTIVE, cache, file, LAST_ENTRY_TS, LAST_ADD_TS, prev, exPos,
                   trailing, on_seen>>

\* an exit step that forgets set_state(SYMBOL, "last_sl", None)
ClearedStateKeepingStop(st) ==
    set_state(set_state(set_state(st, "entry_price", None), "took_tp1", FALSE), "took_tp2", FALSE)

\* lines 235-238: the per-symbol fields after the exit step
ClearedState(st) ==
    set_state(set_state(set_state(set_state(st, "entry_price", None),
                                  "last_sl", None), "took_tp1", FALSE), "took_tp2", FALSE)

ExitClear ==
    /\ pc = "exit_notify"
    /\ cache' = ClearedState(cache)
    /\ file' = cache'
    /\ pc' = "branch"
    /\ UNCHANGED <<TRADING_ACTIVE, LAST_ENTRY_TS, LAST_ADD_TS, prev, exPos,
                   trailing, cyc, calls, journal, observed, legs, faults, on_seen>>

\* line 241: the cycle manages an open position
HasPosition(c) == c.has_pos /\ c.pos # Flat

\* line 245: entry = float(pos.get("avgPrice") or price)
PosEntry(c) == IF c.pos.avgPrice # 0 THEN c.pos.avgPrice ELSE c.price

Count(seq, op) == Cardinality({i \in DOMAIN seq : seq[i].op = op})

\* a scale-in cooldown that is never waited for
CanCooldownAlways(last_add_ts) == TRUE

\* line 260: the scale-in cooldown has elapsed
CanCooldown(last_add_ts) == last_add_ts = None \/ last_add_ts >= COOLDOWN_SEC

\* line 261: the signal, balance and cooldown gate of a scale-in
AddGate(score, avail, min_val, can_cooldown) ==
    score > SIGNAL_THRESHOLD /\ avail >= min_val /\ can_cooldown

\* an order quantity that is not clamped to the available balance
OrderQtyUnclamped(equity, price, avail, min_qty, lot_step, min_val) ==
    Max(_round_down(compute_position_size(equity, price, RISK_PCT, min_qty, lot_step, min_val),
                    1, lot_step), 0)

\* lines 263-269 and 305-311: the quantity of an order, in lots
OrderQty(equity, price, avail, min_qty, lot_step, min_val) ==
    LET raw_qty == compute_position_size(equity, price, RISK_PCT, min_qty, lot_step, min_val)
        num == Max(Min(raw_qty * price, Max(0, avail)), 0)   \* min(raw_qty, avail / price) * price
    IN  Max(_round_down(num, price, lot_step), 0)

\* lines 271 and 312: the quantity can be ordered
QtyOk(qty, price, min_val) == qty * price >= min_val /\ qty > 0

\* a success test that takes every returned response for a success
IsSuccessAnyResponse(res) == res # "raise"

\* lines 273 and 331: isinstance(resp, dict) and resp.get("retCode") == 0
IsSuccess(res) == res = "ok"

\* the side of a scale-in order
AddSide(side_pos) == side_pos

\* lines 241-286: update_stops_and_partials on the open position, then the
\* scale-in and the snapshot of the position; an exception raised by
\* update_stops_and_partials ends the cycle at the loop boundary (lines 361-366)
Manage ==
    /\ pc = "branch"
    /\ HasPosition(cyc)
    /\ \E atr \in AtrSet, stopRes \in Outcome, tp1Res \in Outcome, tp2Res \in Outcome :
        /\ faults + Failed(<<stopRes, tp1Res, tp2Res>>) <= MaxFaults
        /\ \E band \in BandSet, lot_step \in LotStepSet :
            /\ ~(trailing # "atr" /\ atr # None /\ atr > 0) => band = Unread(BandSet)
            /\ LET side_pos == cyc.pos.side
                   r == update_stops_and_partials(cache, exPos, side_pos, PosEntry(cyc),
                            cyc.pos.size, cyc.price, atr, trailing, band[1], band[2], lot_step,
                            stopRes, tp1Res, tp2Res)
                   cooled == CanCooldown(LAST_ADD_TS)
                   added == should_add_position(r.st, side_pos, cyc.price, atr,
                                                band[1], band[2], trailing)
               IN  /\ r.valid
                   /\ \E score \in ScoreSet, avail \in AvailSet, min_val \in MinValSet :
                       /\ r.raised => score = Unread(ScoreSet)
                       /\ score <= SIGNAL_THRESHOLD => avail = Unread(AvailSet)
                       /\ \E equity \in EquitySet, min_qty \in MinQtySet, res \in Outcome :
                           LET gate == /\ ~r.raised
                                       /\ AddGate(score, avail, min_val, cooled)
                                       /\ added
                               qty == OrderQty(equity, cyc.price, avail, min_qty, lot_step, min_val)
                               order == gate /\ QtyOk(qty, cyc.price, min_val)
                               done == order /\ IsSuccess(res)
                               add == Call("add", AddSide(side_pos), qty, None, None, res)
                           IN  /\ ~gate => equity = Unread(EquitySet)
                               /\ ~order => res = "ok"
                               /\ order /\ res = "ok" => ExAccepts(r.ex, AddSide(side_pos), qty)
                               /\ faults' = faults + Failed(<<stopRes, tp1Res, tp2Res, res>>)
                               /\ faults' <= MaxFaults
                               /\ cyc' = [cyc EXCEPT !.atr = atr, !.st_lower = band[1],
                                             !.st_upper = band[2], !.lot_step = lot_step,
                                             !.raised = r.raised, !.score = score,
                                             !.avail = avail, !.equity = equity,
                                             !.min_val = min_val, !.min_qty = min_qty]
                               /\ cache' = r.st
                               /\ file' = r.st
                               /\ exPos' = IF order /\ res = "ok"
                                           THEN ExFill(r.ex, AddSide(side_pos), qty, cyc.price)
                                           ELSE r.ex
                               /\ calls' = IF order THEN Append(calls \o r.calls, add)
                                           ELSE calls \o r.calls
                               /\ journal' = IF done
                                             THEN Append(journal \o r.journal,
                                                         Event("add", side_pos, qty, cyc.price,
                                                               None, None, <<>>))
                                             ELSE journal \o r.journal
                               /\ legs' = [tp1 |-> legs.tp1 + Count(r.calls, "tp1"),
                                           tp2 |-> legs.tp2 + Count(r.calls, "tp2"),
                                           orig |-> IF legs.orig = 0 /\ r.ex # exPos
                                                    THEN cyc.pos.size ELSE legs.orig]
                               /\ LAST_ADD_TS' = IF done THEN 0 ELSE LAST_ADD_TS
                               /\ prev' = IF r.raised THEN prev
                                          ELSE [has_pos |-> TRUE, side |-> side_pos,
                                                size |-> cyc.pos.size, entry |-> PosEntry(cyc)]
                               /\ pc' = "done"
    /\ UNCHANGED <<TRADING_ACTIVE, LAST_ENTRY_TS, trailing, observed, on_seen>>

\* an entry cooldown that is never waited for
EntryNeverCooling(last_entry_ts) == FALSE

\* lines 290-292: the entry cooldown has not elapsed
EntryCooling(last_entry_ts) ==
    /\ COOLDOWN_SEC > 0
    /\ last_entry_ts # None
    /\ COOLDOWN_SEC - last_entry_ts > 0

\* line 289: the signal gate of an entry
EntrySignal(score) == score > SIGNAL_THRESHOLD

\* line 298: the balance does not cover the minimum order
EntryPoor(avail, min_val) == avail < min_val

\* line 318: the side of an entry
EntrySide(ta) == IF ta >= 0 THEN "Buy" ELSE "Sell"

\* line 335: avg = float(p.get("avgPrice")) if p and p.get("avgPrice") else price
EntryAvg(p, price) == IF p # Flat /\ p.avgPrice # 0 THEN p.avgPrice ELSE price

\* lines 337-340: the per-symbol fields after a successful entry
EnteredState(st, avg, sl) ==
    set_state(set_state(set_state(set_state(st, "entry_price", avg),
                                  "last_sl", sl), "took_tp1", FALSE), "took_tp2", FALSE)

\* lines 288-359: no position to manage: a new entry if the signal allows
Entry ==
    /\ pc = "branch"
    /\ ~HasPosition(cyc)
    /\ \E score \in ScoreSet, avail \in AvailSet, min_val \in MinValSet :
        LET funded == EntrySignal(score) /\ ~EntryCooling(LAST_ENTRY_TS)
            sized == funded /\ ~EntryPoor(avail, min_val)
        IN  /\ ~funded => avail = Unread(AvailSet)
            /\ \E equity \in EquitySet, min_qty \in MinQtySet, lot_step \in LotStepSet :
                LET qty == OrderQty(equity, cyc.price, avail, min_qty, lot_step, min_val)
                    order == sized /\ QtyOk(qty, cyc.price, min_val)
                IN  /\ ~sized => equity = Unread(EquitySet)
                    /\ \E ta \in TaSet, atr \in AtrSet, res \in Outcome, outcome2 \in Outcome :
                        LET side == EntrySide(ta)
                            levels == compute_initial_sl_tp(cyc.price, side, atr)
                            done == order /\ IsSuccess(res)
                            ex1 == IF order /\ res = "ok"
                                   THEN ExFill(exPos, side, qty, cyc.price) ELSE exPos
                            p == _has_open_position(ex1, outcome2)[2]
                            avg == EntryAvg(p, cyc.price)
                        IN  /\ ~order => ta = Unread(TaSet) /\ atr = Unread(AtrSet) /\ res = "ok"
                            /\ ~done => outcome2 = "ok"
                            /\ faults' = faults + Failed(<<res, outcome2>>)
                            /\ faults' <= MaxFaults
                            /\ order /\ res = "ok" => ExAccepts(exPos, side, qty)
                            /\ cyc' = [cyc EXCEPT !.score = score, !.ta = ta, !.avail = avail,
                                          !.equity = equity, !.atr = atr, !.min_val = min_val,
                                          !.min_qty = min_qty, !.lot_step = lot_step,
                                          !.query2 = IF done THEN outcome2 ELSE "none"]
                            /\ exPos' = ex1
                            /\ calls' = IF order
                                        THEN Append(calls, Call("entry", side, qty, levels.sl,
                                                                levels.tp2, res))
                                        ELSE calls
                            /\ LAST_ENTRY_TS' = IF done THEN 0 ELSE LAST_ENTRY_TS
                            /\ cache' = IF done THEN EnteredState(cache, avg, levels.sl) ELSE cache
                            /\ file' = IF done THEN cache' ELSE file
                            /\ journal' = IF done
                                          THEN Append(journal, Event("entry", side, qty, avg,
                                                                     levels.sl, levels.tp2, <<>>))
                                          ELSE journal
                            /\ legs' = IF done THEN NoLegs ELSE legs
                            /\ prev' = IF done
                                       THEN [has_pos |-> TRUE, side |-> side, size |-> qty,
                                             entry |-> avg]
                                       ELSE IF EntrySignal(score)
                                       THEN [prev EXCEPT !.has_pos = FALSE]
                                       ELSE [prev EXCEPT !.has_pos = cyc.has_pos]
                            /\ observed' = done
                            /\ pc' = "done"
    /\ UNCHANGED <<TRADING_ACTIVE, LAST_ADD_TS, trailing, on_seen>>

\* a loop whose boundary does not catch: a cycle that raised is never followed
\* by the sleep and the next iteration
SleepUnlessRaised ==
    /\ pc = "done"
    /\ ~cyc.raised
    /\ LAST_ENTRY_TS' = Elapse(LAST_ENTRY_TS, SLEEP_CYCLE)
    /\ LAST_ADD_TS' = Elapse(LAST_ADD_TS, SLEEP_CYCLE)
    /\ pc' = "idle"
    /\ cyc' = NoCyc
    /\ calls' = <<>>
    /\ journal' = <<>>
    /\ UNCHANGED <<TRADING_ACTIVE, cache, file, prev, exPos, trailing, observed, legs, faults, on_seen>>

\* line 368 (and 285, 294, 300, 314): await asyncio.sleep(15) ends the cycle
Sleep ==
    /\ pc = "done"
    /\ LAST_ENTRY_TS' = Elapse(LAST_ENTRY_TS, SLEEP_CYCLE)
    /\ LAST_ADD_TS' = Elapse(LAST_ADD_TS, SLEEP_CYCLE)
    /\ pc' = "idle"
    /\ cyc' = NoCyc
    /\ calls' = <<>>
    /\ journal' = <<>>
    /\ UNCHANGED <<TRADING_ACTIVE, cache, file, prev, exPos, trailing, observed, legs, faults, on_seen>>

Next ==
    \/ on_cmd
    \/ off_cmd
    \/ Restart
    \/ ExchangeClose
    \/ Disabled
    \/ NoData
    \/ CycleError
    \/ Analyze
    \/ ExitClear
    \/ Manage
    \/ Entry
    \/ Sleep

Spec == Init /\ [][Next]_vars

\* asyncio resumes the loop when its sleep of 15 s is over
LiveSpec == Init /\ [][Next]_vars /\ WF_vars(Sleep)

\* ------------------------------------------------------------ properties
\* C1: within one position lifetime (from a confirmed entry until the full
\* exit is detected) each take-profit leg submits its reduce-only order at
\* most once, and a leg that has submitted is persisted as latched, in the
\* cache and in the file a restart reloads.
PartialLegsFireOnce ==
    /\ legs.tp1 <= 1
    /\ legs.tp2 <= 1
    /\ legs.tp1 = 1 => Get(cache, "took_tp1", FALSE) /\ Get(file, "took_tp1", FALSE)
    /\ legs.tp2 = 1 => Get(cache, "took_tp2", FALSE) /\ Get(file, "took_tp2", FALSE)

\* C1, reached: after a restart (no entry timestamp in memory) a cycle manages
\* the position at a price that still satisfies the tp1 condition, the leg has
\* fired before in this lifetime, and the cycle submits no tp1 order.
PartialLegsFireOnceSeen ==
    /\ pc = "done"
    /\ HasPosition(cyc)
    /\ LAST_ENTRY_TS = None
    /\ legs.tp1 = 1
    /\ cyc.atr # None
    /\ TpReached(cyc.pos.side, cyc.price, PosEntry(cyc), ATR_K_TP1, cyc.atr)
    /\ Count(calls, "tp1") = 0

\* C2: while the same position stays open, no step replaces the persisted
\* last_sl by a looser one (lower for a long, higher for a short).
StopNeverLoosens ==
    [][(/\ exPos.size > 0
        /\ exPos'.size > 0
        /\ exPos'.side = exPos.side
        /\ Get(cache, "last_sl", None) # None
        /\ Get(cache', "last_sl", None) # None)
       => /\ exPos.side = "Buy"  => Get(cache', "last_sl", None) >= Get(cache, "last_sl", None)
          /\ exPos.side = "Sell" => Get(cache', "last_sl", None) <= Get(cache, "last_sl", None)]_vars

\* C3: a cycle whose reduce-only order of a leg failed (exception or non-zero
\* retCode) leaves the persisted flag of that leg as it was.
FailedPartialKeepsFlag ==
    [][\A i \in DOMAIN calls' :
         (pc = "branch" /\ calls'[i].res # "ok") =>
            /\ calls'[i].op = "tp1" =>
                 Get(cache', "took_tp1", FALSE) = Get(cache, "took_tp1", FALSE)
            /\ calls'[i].op = "tp2" =>
                 Get(cache', "took_tp2", FALSE) = Get(cache, "took_tp2", FALSE)]_vars

\* C4: a cycle whose stop update failed (exception or non-zero retCode)
\* leaves the persisted last_sl as it was.
FailedStopKeepsLastSl ==
    [][\A i \in DOMAIN calls' :
         (pc = "branch" /\ calls'[i].op = "stop" /\ calls'[i].res # "ok") =>
            /\ Get(cache', "last_sl", None) = Get(cache, "last_sl", None)
            /\ Get(file', "last_sl", None) = Get(file, "last_sl", None)]_vars

\* C5: a cycle emits an exit record only if the previous evaluated cycle saw
\* an open position on the exchange and this cycle's query reports none.
ExitOnlyAfterObservedPosition ==
    \A i \in DOMAIN journal :
        journal[i].event = "exit" => cyc.prev_observed /\ ~cyc.has_pos

\* C6: at the end of the exit step the persisted record has entry_price and
\* last_sl null and both leg flags false.
ExitStepClearsState ==
    (pc = "branch" /\ \E i \in DOMAIN journal : journal[i].event = "exit") =>
        /\ DOMAIN file = {"entry_price", "last_sl", "took_tp1", "took_tp2"}
        /\ file["entry_price"] = None
        /\ file["last_sl"] = None
        /\ file["took_tp1"] = FALSE
        /\ file["took_tp2"] = FALSE
        /\ cache = file

\* C6, reached: the exit step has run for a position the loop had tracked
\* with a size and an entry price.
ExitStepClearsStateSeen ==
    /\ pc = "branch"
    /\ \E i \in DOMAIN journal : journal[i].event = "exit"
    /\ prev.size > 0
    /\ prev.entry # None
    /\ exPos = Flat

\* C7: a cycle with no open position submits an entry order only if the
\* score is above the threshold, the entry cooldown has elapsed (or no entry
\* is recorded) and the balance covers the minimum order; the order is long
\* iff the technical sub-score is >= 0 and carries the initial stop-loss and
\* the tp2 take-profit.
EntryOrderGuarded ==
    [][\A i \in DOMAIN calls' :
         (pc = "branch" /\ calls'[i].op = "entry") =>
            LET c == cyc'
                o == calls'[i]
                levels == compute_initial_sl_tp(c.price, o.side, c.atr)
            IN  /\ ~HasPosition(cyc)
                /\ c.score > SIGNAL_THRESHOLD
                /\ LAST_ENTRY_TS = None \/ LAST_ENTRY_TS >= COOLDOWN_SEC
                /\ c.avail >= c.min_val
                /\ o.side = "Buy" <=> c.ta >= 0
                /\ o.side = "Sell" <=> c.ta < 0
                /\ o.sl = levels.sl
                /\ o.tp = levels.tp2]_vars

\* C7, reached: a short entry order was submitted after the cooldown of an
\* earlier entry had elapsed, and it was rejected.
EntryOrderGuardedSeen ==
    /\ pc = "done"
    /\ LAST_ENTRY_TS = COOLDOWN_SEC
    /\ \E i \in DOMAIN calls :
        calls[i].op = "entry" /\ calls[i].side = "Sell" /\ calls[i].res = "retcode"

\* C8: after an entry order the per-symbol fields, the entry timestamp and
\* the entry record are written iff the response is a success; after a
\* failure the persisted state, both timestamps and the journal are unchanged.
EntryPersistedIffSuccess ==
    [][\A i \in DOMAIN calls' :
         (pc = "branch" /\ calls'[i].op = "entry") =>
            LET o == calls'[i]
                avg == IF cyc'.query2 = "ok" /\ exPos'.size > 0 /\ exPos'.avgPrice # 0
                       THEN exPos'.avgPrice ELSE cyc'.price
            IN  IF o.res = "ok"
                THEN /\ cache'["entry_price"] = avg
                     /\ cache'["last_sl"] = o.sl
                     /\ cache'["took_tp1"] = FALSE
                     /\ cache'["took_tp2"] = FALSE
                     /\ file' = cache'
                     /\ LAST_ENTRY_TS' = 0
                     /\ journal' = Append(journal, Event("entry", o.side, o.qty, avg,
                                                         o.sl, o.tp, <<>>))
                ELSE /\ cache' = cache
                     /\ file' = file
                     /\ LAST_ENTRY_TS' = LAST_ENTRY_TS
                     /\ LAST_ADD_TS' = LAST_ADD_TS
                     /\ journal' = journal]_vars

\* C8, reached: an entry order failed with an exception while the record of
\* an earlier position was persisted, and the cycle emitted nothing.
EntryPersistedIffSuccessSeen ==
    /\ pc = "done"
    /\ \E i \in DOMAIN calls : calls[i].op = "entry" /\ calls[i].res = "raise"
    /\ "last_sl" \in DOMAIN file
    /\ journal = <<>>

\* C9: a cycle with an open position submits a scale-in order only if the
\* score is above the threshold, the balance covers the minimum order and
\* the cooldown since the last successful scale-in has elapsed (or there was
\* none); the order has the side of the position; the scale-in timestamp and
\* the add record are written only when the order succeeded.
ScaleInGuarded ==
    [][(pc = "branch" /\ pc' = "done" /\ HasPosition(cyc)) =>
         /\ \A i \in DOMAIN calls' :
              calls'[i].op = "add" =>
                 /\ cyc'.score > SIGNAL_THRESHOLD
                 /\ cyc'.avail >= cyc'.min_val
                 /\ LAST_ADD_TS = None \/ LAST_ADD_TS >= COOLDOWN_SEC
                 /\ calls'[i].side = cyc.pos.side
                 /\ calls'[i].side = exPos.side
         /\ (LAST_ADD_TS' # LAST_ADD_TS \/ \E j \in DOMAIN journal' : journal'[j].event = "add")
              => /\ \E i \in DOMAIN calls' : calls'[i].op = "add" /\ calls'[i].res = "ok"
                 /\ LAST_ADD_TS' = 0
                 /\ \E j \in DOMAIN journal' : journal'[j].event = "add"
         /\ (\A i \in DOMAIN calls' : calls'[i].op = "add" => calls'[i].res # "ok")
              => LAST_ADD_TS' = LAST_ADD_TS]_vars

\* C9, reached: a scale-in order succeeded and its timestamp and record were
\* written.
ScaleInGuardedSeen ==
    /\ pc = "done"
    /\ \E i \in DOMAIN calls : calls[i].op = "add" /\ calls[i].res = "ok"
    /\ LAST_ADD_TS = 0
    /\ \E j \in DOMAIN journal : journal[j].event = "add"
    /\ exPos.size > cyc.pos.size

\* C10 as stated: a scale-in is let through only when a stop was persisted
\* before the cycle and the trailing candidate of the position's side is
\* strictly more protective than that stop, in both trailing modes.
AddGateStrictlyTightened ==
    [][(pc = "branch" /\ \E i \in DOMAIN calls' : calls'[i].op = "add") =>
         LET before == Get(cache, "last_sl", None)
             side == cyc.pos.side
             cand == TrailSl10(side, cyc'.price, cyc'.atr, trailing,
                               cyc'.st_lower, cyc'.st_upper)
         IN  /\ before # None
             /\ trailing = "atr" => cyc'.atr # None
             /\ side = "Buy"  => cand > 10 * before
             /\ side = "Sell" => cand < 10 * before]_vars

\* C10 as the code has it: a scale-in is let through only when a stop is
\* persisted at the time of the gate (after this cycle's stop update) and the
\* trailing candidate is at least as protective as that stop; in ATR mode
\* only with a positive ATR, in overlay mode with or without one.
AddGateNotLooser ==
    (pc = "done" /\ \E i \in DOMAIN calls : calls[i].op = "add") =>
        LET now_sl == Get(cache, "last_sl", None)
            side == cyc.pos.side
            cand == TrailSl10(side, cyc.price, cyc.atr, trailing, cyc.st_lower, cyc.st_upper)
        IN  /\ now_sl # None
            /\ trailing = "atr" => cyc.atr # None /\ cyc.atr > 0
            /\ side = "Buy"  => cand >= 10 * now_sl
            /\ side = "Sell" => cand <= 10 * now_sl

\* C10, reached: a scale-in was let through with the candidate equal to the
\* persisted stop.
AddGateNotLooserSeen ==
    /\ pc = "done"
    /\ \E i \in DOMAIN calls : calls[i].op = "add"
    /\ TrailSl10(cyc.pos.side, cyc.price, cyc.atr, trailing, cyc.st_lower, cyc.st_upper)
         = 10 * Get(cache, "last_sl", None)

\* C11: while the loop stands at its flag test and trading is off, no step
\* queries the exchange, submits an order or writes a record, the persisted
\* state is unchanged, the previous-position snapshot and the two timestamps
\* are untouched (the time since a timestamp only grows by the sleep), and
\* the loop stays at the flag test; only a restart of the process resets the
\* snapshot and the timestamps.
DisabledLoopIsInert ==
    [][(pc = "idle" /\ ~TRADING_ACTIVE) =>
         /\ pc' = "idle"
         /\ cyc' = NoCyc
         /\ calls' = <<>>
         /\ journal' = <<>>
         /\ faults' = faults
         /\ cache' = cache
         /\ file' = file
         /\ \/ /\ prev' = prev
               /\ LAST_ENTRY_TS' \in {LAST_ENTRY_TS, Elapse(LAST_ENTRY_TS, SLEEP_OFF)}
               /\ LAST_ADD_TS' \in {LAST_ADD_TS, Elapse(LAST_ADD_TS, SLEEP_OFF)}
            \/ /\ prev' = NoPrev
               /\ LAST_ENTRY_TS' = None
               /\ LAST_ADD_TS' = None
               /\ cache' = file]_vars

\* C11, reached: trading was switched off with a position open and its state
\* persisted, and the loop has slept once on the flag test since.
DisabledLoopIsInertSeen ==
    /\ pc = "idle"
    /\ ~TRADING_ACTIVE
    /\ LAST_ENTRY_TS = SLEEP_CYCLE + SLEEP_OFF
    /\ prev.has_pos
    /\ exPos.size > 0
    /\ "last_sl" \in DOMAIN file

\* C12: a cycle that raised an exception (in the analysis, or in the
\* lifecycle step of an open position) is caught at the loop boundary, and
\* after the sleep the loop stands at the start of another iteration.
ErrorCycleIsFollowed ==
    (pc = "done" /\ cyc.raised) ~> (pc = "idle" /\ cyc = NoCyc)

\* C12, reached: update_stops_and_partials raised while a position was open.
ErrorCycleIsFollowedSeen ==
    /\ pc = "done"
    /\ cyc.raised
    /\ HasPosition(cyc)
    /\ exPos.size > 0

\* C13: a cycle calls the exchange stop update only when no stop was
\* persisted at its start or the requested stop is strictly more protective
\* than the persisted one (long: greater; short: smaller).
StopUpdateOnlyTightens ==
    [][\A i \in DOMAIN calls' :
         (pc = "branch" /\ calls'[i].op = "stop") =>
            LET before == Get(cache, "last_sl", None)
            IN  \/ before = None
                \/ cyc.pos.side = "Buy"  /\ calls'[i].sl > before
                \/ cyc.pos.side = "Sell" /\ calls'[i].sl < before]_vars

\* C13, reached: the stop of a short was moved below its entry price and the
\* exchange accepted it.
StopUpdateOnlyTightensSeen ==
    /\ pc = "done"
    /\ HasPosition(cyc)
    /\ cyc.pos.side = "Sell"
    /\ \E i \in DOMAIN calls :
        /\ calls[i].op = "stop"
        /\ calls[i].res = "ok"
        /\ calls[i].sl < PosEntry(cyc)
        /\ Get(file, "last_sl", None) = calls[i].sl

\* C14: in a cycle that manages a position with a positive ATR and a price
\* that has moved in favour by at least the breakeven multiple of ATR from
\* the entry, update_stops_and_partials computes a desired stop at least as
\* protective as the entry price (long: >= entry; short: <= entry).
BreakevenFloorsDesiredStop ==
    [][(/\ pc = "branch"
        /\ pc' = "done"
        /\ HasPosition(cyc)
        /\ cyc'.atr # None
        /\ cyc'.atr > 0
        /\ BeTriggered(cyc.pos.side, cyc.price, PosEntry(cyc), cyc'.atr))
       => LET side == cyc.pos.side
              desired == DesiredSl10(side, Get(cache, "last_sl", None), PosEntry(cyc),
                                     cyc.price, cyc'.atr, trailing,
                                     cyc'.st_lower, cyc'.st_upper)
          IN  /\ ~cyc'.raised
              /\ desired # None
              /\ side = "Buy"  => desired >= 10 * PosEntry(cyc)
              /\ side = "Sell" => desired <= 10 * PosEntry(cyc)]_vars

\* C15: in a cycle that manages a position with a positive ATR,
\* update_stops_and_partials computes a desired stop that is one of the
\* persisted last stop, the breakeven candidate (when triggered) and the
\* trailing candidate, and is the most protective of them: the maximum for a
\* long, the minimum for a short.
DesiredStopIsMostProtective ==
    [][(/\ pc = "branch"
        /\ pc' = "done"
        /\ HasPosition(cyc)
        /\ cyc'.atr # None
        /\ cyc'.atr > 0)
       => LET side == cyc.pos.side
              last_sl == Get(cache, "last_sl", None)
              trail == TrailSl10(side, cyc.price, cyc'.atr, trailing,
                                 cyc'.st_lower, cyc'.st_upper)
              candidates ==
                  (IF last_sl # None THEN {10 * last_sl} ELSE {})
                  \cup (IF BeTriggered(side, cyc.price, PosEntry(cyc), cyc'.atr)
                        THEN {10 * Round2(PosEntry(cyc), 1)} ELSE {})
                  \cup (IF trail # None THEN {trail} ELSE {})
              desired == DesiredSl10(side, last_sl, PosEntry(cyc), cyc.price, cyc'.atr,
                                     trailing, cyc'.st_lower, cyc'.st_upper)
          IN  /\ ~cyc'.raised
              /\ candidates # {} => desired \in candidates
              /\ \A x \in candidates :
                    /\ side = "Buy"  => desired >= x
                    /\ side = "Sell" => desired <= x]_vars

LegClosesFractionOfOriginal ==
    [][(pc = "branch" /\ pc' = "done" /\ HasPosition(cyc)) =>
         LET original == IF legs.orig # 0 THEN legs.orig ELSE cyc.pos.size
             Fires(key) == ~Get(cache, key, FALSE) /\ Get(cache', key, FALSE)
             Closes(op, pct) ==
                 LET q == _round_step(original * pct, 100, cyc'.lot_step)
                 IN  /\ q > 0 => Count(calls', op) = 1
                     /\ \A i \in DOMAIN calls' :
                           calls'[i].op = op =>
                              /\ calls'[i].qty = q
                              /\ calls'[i].side = Opposite(cyc.pos.side)
         IN  /\ Fires("took_tp1") => Closes("tp1", PARTIAL_TP1_PCT)
             /\ Fires("took_tp2") => Closes("tp2", PARTIAL_TP2_PCT)]_vars

\* C18: the partial take-profit hook is invoked once for each partial close
\* the exchange accepted (retCode 0), with the closing side and the closed
\* quantity, and not for a close order that failed.
HookOncePerAcceptedClose ==
    LET hooks == {j \in DOMAIN journal : journal[j].event = "partial_take_profit"}
        closes == {i \in DOMAIN calls : calls[i].op \in {"tp1", "tp2"}}
        accepted == {i \in closes : calls[i].res = "ok"}
    IN  /\ Cardinality(hooks) = Cardinality(accepted)
        /\ \A j \in hooks : \E i \in accepted :
              journal[j].side = calls[i].side /\ journal[j].qty = calls[i].qty
        /\ (closes # {} /\ accepted = {}) => hooks = {}

\* C19: at a detected full exit the inferred PnL is size * (price - entry)
\* for a long and size * (entry - price) for a short, with side, size and
\* entry the values last observed for the position (prev) and price the
\* price of the detecting cycle, also after scale-ins and partial closes.
ExitPnlFromLastObserved ==
    (pc = "exit_notify" /\ prev.side \in {"Buy", "Sell"} /\ prev.entry # None) =>
        /\ journal[1].event = "exit"
        /\ journal[1].pnl =
              IF prev.side = "Buy" THEN <<prev.size * (cyc.price - prev.entry)>>
              ELSE <<prev.size * (prev.entry - cyc.price)>>

\* ------------------------------------------- compute_position_size alone
\* One call of compute_position_size with the default instrument parameters.
\* Units of this specification: equity and price in USDT, the risk fraction in
\* 1/100000, quantities in lots of 0.001, order values in 1/1000 USDT, so
\* that raw_qty * price = equity * risk_pct and the arithmetic is exact.
DefaultMinQty == 1                \* min_qty = 0.001
DefaultQtyStep == 1               \* qty_step = 0.001
DefaultMinOrderValue == 5000      \* min_order_value = 5.0

SizeEquitySet == {1, 100, 1000, 10000, 100000}
SizePriceSet == {1, 7, 2500, 3000, 5000, 60000}
SizeRiskSet == {0, 1, 100, 1000, 2000}

\* the arguments of the call; qty is None until it has returned
SizeInit ==
    /\ TRADING_ACTIVE = FALSE
    /\ pc = "idle"
    /\ cache = EmptyState
    /\ file = EmptyState
    /\ LAST_ENTRY_TS = None
    /\ LAST_ADD_TS = None
    /\ prev = NoPrev
    /\ exPos = Flat
    /\ trailing = "atr"
    /\ cyc \in [equity : SizeEquitySet, price : SizePriceSet,
                risk_pct : SizeRiskSet, qty : {None}]
    /\ calls = <<>>
    /\ journal = <<>>
    /\ observed = FALSE
    /\ legs = NoLegs
    /\ faults = 0
    /\ on_seen = FALSE

Size ==
    /\ pc = "idle"
    /\ pc' = "done"
    /\ cyc' = [cyc EXCEPT !.qty = compute_position_size(cyc.equity, cyc.price, cyc.risk_pct,
                                      DefaultMinQty, DefaultQtyStep, DefaultMinOrderValue)]
    /\ UNCHANGED <<TRADING_ACTIVE, cache, file, LAST_ENTRY_TS, LAST_ADD_TS, prev, exPos,
                   trailing, calls, journal, observed, legs, faults, on_seen>>

SizeNext == Size

SizeSpec == SizeInit /\ [][SizeNext]_vars

\* C20: for every equity > 0, price > 0 and risk fraction, with the default
\* instrument parameters, compute_position_size returns a quantity that is
\* at least minQty, is worth at least minOrderValue at the price, and is an
\* exact multiple of qtyStep.
SizeMeetsInstrumentLimits ==
    (pc = "done" /\ cyc.equity > 0 /\ cyc.price > 0) =>
        /\ cyc.qty >= DefaultMinQty
        /\ cyc.qty * cyc.price >= DefaultMinOrderValue
        /\ cyc.qty % DefaultQtyStep = 0

\* ------------------------------------------------ order quantity alone
\* The sizing of one entry or scale-in order (bot.py 263-272 and 298-316) for
\* a cycle whose fetched values are drawn from wider sets than the loop's.
OrderEquitySet == {100, 400, 1000}
OrderPriceSet == {7, 100, 112, 250}
OrderAvailSet == {0, 150, 210, 320, 1000}
OrderMinValSet == {5, 200}
OrderLotStepSet == {1, 2}
OrderMinQtySet == {1, 2}

OrderInit ==
    /\ TRADING_ACTIVE = TRUE
    /\ pc = "branch"
    /\ cache = EmptyState
    /\ file = EmptyState
    /\ LAST_ENTRY_TS = None
    /\ LAST_ADD_TS = None
    /\ prev = NoPrev
    /\ exPos = Flat
    /\ trailing = "atr"
    /\ \E equity \in OrderEquitySet, price \in OrderPriceSet, avail \in OrderAvailSet,
          min_val \in OrderMinValSet, lot_step \in OrderLotStepSet, min_qty \in OrderMinQtySet :
          cyc = [NoCyc EXCEPT !.equity = equity, !.price = price, !.avail = avail,
                              !.min_val = min_val, !.lot_step = lot_step, !.min_qty = min_qty,
                              !.query = "ok"]
    /\ calls = <<>>
    /\ journal = <<>>
    /\ observed = FALSE
    /\ legs = NoLegs
    /\ faults = 0
    /\ on_seen = FALSE

\* lines 263-272 (op "add") and 298-329 (op "entry"): size the order and
\* submit it if the quantity can be ordered
SubmitOrder ==
    /\ pc = "branch"
    /\ \E op \in {"entry", "add"}, side \in {"Buy", "Sell"} :
        LET qty == OrderQty(cyc.equity, cyc.price, cyc.avail, cyc.min_qty, cyc.lot_step,
                            cyc.min_val)
            order == ~EntryPoor(cyc.avail, cyc.min_val) /\ QtyOk(qty, cyc.price, cyc.min_val)
        IN  calls' = IF order THEN <<Call(op, side, qty, None, None, "ok")>> ELSE <<>>
    /\ pc' = "done"
    /\ UNCHANGED <<TRADING_ACTIVE, cache, file, LAST_ENTRY_TS, LAST_ADD_TS, prev, exPos,
                   trailing, cyc, journal, observed, legs, faults, on_seen>>

OrderNext == SubmitOrder

OrderSpec == OrderInit /\ [][OrderNext]_vars

\* C21: every entry or scale-in order has a positive quantity that is a
\* multiple of the lot step and whose notional qty * price is at most the
\* available balance of the cycle and at least the minimum order value; a
\* cycle for which no such quantity exists submits no order.
OrderWithinBalanceAndLimits ==
    (pc = "done" /\ cyc.price > 0) =>
        LET Fits(q) == /\ q > 0
                       /\ q % cyc.lot_step = 0
                       /\ q * cyc.price <= cyc.avail
                       /\ q * cyc.price >= cyc.min_val
            orders == {i \in DOMAIN calls : calls[i].op \in {"entry", "add"}}
        IN  /\ \A i \in orders : Fits(calls[i].qty)
            /\ (\A q \in 1..(cyc.avail \div cyc.price) : ~Fits(q)) => orders = {}

\* an order was submitted whose quantity the available balance cut down
OrderWithinBalanceAndLimitsSeen ==
    /\ pc = "done"
    /\ \E i \in DOMAIN calls :
          /\ calls[i].op \in {"entry", "add"}
          /\ calls[i].qty < compute_position_size(cyc.equity, cyc.price, RISK_PCT,
                                                  cyc.min_qty, cyc.lot_step, cyc.min_val)

\* ------------------------------------------- compute_initial_sl_tp alone
\* One call of compute_initial_sl_tp with the configured multipliers, for
\* prices on and off the cent grid (a cent is 5 units) and ATRs from a
\* fraction of a cent upwards.
LevelsPriceSet == 95..105
LevelsAtrSet == 1..12
LevelsSideSet == {"Buy", "Sell"}

\* the arguments of the call; levels is None until it has returned
LevelsInit ==
    /\ TRADING_ACTIVE = FALSE
    /\ pc = "idle"
    /\ cache = EmptyState
    /\ file = EmptyState
    /\ LAST_ENTRY_TS = None
    /\ LAST_ADD_TS = None
    /\ prev = NoPrev
    /\ exPos = Flat
    /\ trailing = "atr"
    /\ \E price \in LevelsPriceSet, atr \in LevelsAtrSet, side \in LevelsSideSet :
          cyc = [price |-> price, atr |-> atr, side |-> side, levels |-> None]
    /\ calls = <<>>
    /\ journal = <<>>
    /\ observed = FALSE
    /\ legs = NoLegs
    /\ faults = 0
    /\ on_seen = FALSE

Levels ==
    /\ pc = "idle"
    /\ pc' = "done"
    /\ cyc' = [cyc EXCEPT !.levels = compute_initial_sl_tp(cyc.price, cyc.side, cyc.atr)]
    /\ UNCHANGED <<TRADING_ACTIVE, cache, file, LAST_ENTRY_TS, LAST_ADD_TS, prev, exPos,
                   trailing, calls, journal, observed, legs, faults, on_seen>>

LevelsNext == Levels

LevelsSpec == LevelsInit /\ [][LevelsNext]_vars

\* C22: for every ATR > 0 and both sides the rounded levels are strictly
\* ordered around the entry price: long sl < price < tp1 < tp2, short
\* tp2 < tp1 < price < sl.
InitialLevelsStrictlyOrdered ==
    (pc = "done" /\ cyc.atr > 0) =>
        LET l == cyc.levels
        IN  IF cyc.side = "Buy"
            THEN l.sl < cyc.price /\ cyc.price < l.tp1 /\ l.tp1 < l.tp2
            ELSE l.tp2 < l.tp1 /\ l.tp1 < cyc.price /\ cyc.price < l.sl

\* ----------------------------------------------------------- scoring.py
\* Sub-scores, configured amounts and weights are in 1/1000; ratio thresholds
\* (surge, hot/cold, z-momentum, long/short ratio) are in 1/1000 as well.
\* A metric is a record with a kind: "none" (None), "num" (a float v),
\* "bad" (a value float() rejects), "list" (a list of metrics in items) or
\* "dict" (a dict with the one key `key` holding the metric v).
MNone == [kind |-> "none"]
MNum(v) == [kind |-> "num", v |-> v]
MBad == [kind |-> "bad"]
MList(items) == [kind |-> "list", items |-> items]
MDict(key, v) == [kind |-> "dict", key |-> key, v |-> v]

\* a default configuration with tenfold weights
HeavyCfg ==
    [weights |-> [TA |-> 4500, BybitData |-> 2500, Volume |-> 1500, Volatility |-> 1500],
     volume |-> [surge_hi |-> 1500, surge_lo |-> 700, score_hi |-> 600, score_lo |-> -400],
     volatility |-> [hot_ratio |-> 1200, cold_ratio |-> 800, score_hot |-> 300,
                     score_cold |-> -300, z_momentum_hi |-> 600, z_momentum_lo |-> -600,
                     score_z_hi |-> 200, score_z_lo |-> -200],
     ta |-> [ema_stack_bonus |-> 400, adx_trend |-> 25, adx_score |-> 200, rsi_hot |-> 70,
             rsi_cold |-> 30, rsi_score |-> -100, vwap_alignment |-> 100],
     bybit |-> [funding_pos |-> 50, funding_neg |-> -50, basis_pos |-> 100,
                basis_neg |-> -100, lsr_pos |-> 100, lsr_neg |-> -100]]

_DEFAULT_CFG ==
    [weights |-> [TA |-> 450, BybitData |-> 250, Volume |-> 150, Volatility |-> 150],
     volume |-> [surge_hi |-> 1500, surge_lo |-> 700, score_hi |-> 600, score_lo |-> -400],
     volatility |-> [hot_ratio |-> 1200, cold_ratio |-> 800, score_hot |-> 300,
                     score_cold |-> -300, z_momentum_hi |-> 600, z_momentum_lo |-> -600,
                     score_z_hi |-> 200, score_z_lo |-> -200],
     ta |-> [ema_stack_bonus |-> 400, adx_trend |-> 25, adx_score |-> 200, rsi_hot |-> 70,
             rsi_cold |-> 30, rsi_score |-> -100, vwap_alignment |-> 100],
     bybit |-> [funding_pos |-> 50, funding_neg |-> -50, basis_pos |-> 100,
                basis_neg |-> -100, lsr_pos |-> 100, lsr_neg |-> -100]]

\* a config.yaml that overrides the sub-score amounts with larger ones
StrongCfg ==
    [_DEFAULT_CFG EXCEPT !.volume.score_hi = 1500, !.volume.score_lo = -1200,
                         !.volatility.score_hot = 900, !.volatility.score_z_hi = 600,
                         !.ta.ema_stack_bonus = 900, !.ta.adx_score = 400,
                         !.bybit.basis_pos = 800, !.bybit.lsr_pos = 600]

\* max(min(s, 1.0), -1.0)
Clamp1(s) == Max(Min(s, 1000), -1000)

\* float(x) succeeds
IsFloat(x) == x.kind = "num"

\* a conversion whose default for an unusable value is not neutral
LastFloatDefaultOne(x) ==
    LET y == IF x.kind = "list" /\ Len(x.items) > 0 THEN x.items[Len(x.items)] ELSE x
    IN  IF IsFloat(y) THEN y.v ELSE 1

\* _safe_last_float(x, 0.0)
_safe_last_float(x) ==
    LET y == IF x.kind = "list" /\ Len(x.items) > 0 THEN x.items[Len(x.items)] ELSE x
    IN  IF y.kind = "none" THEN 0
        ELSE IF IsFloat(y) THEN y.v
        ELSE 0

_ema_stack_score(cfg, last) ==
    IF last.ema_9 > last.ema_21 /\ last.ema_21 > last.ema_50 THEN cfg.ta.ema_stack_bonus
    ELSE IF last.ema_9 < last.ema_21 /\ last.ema_21 < last.ema_50 THEN -cfg.ta.ema_stack_bonus
    ELSE 0

_adx_score(cfg, last) ==
    IF last.adx = None THEN 0
    ELSE IF last.adx >= cfg.ta.adx_trend THEN cfg.ta.adx_score
    ELSE 0

_rsi_score(cfg, last) ==
    IF last.rsi = None THEN 0
    ELSE IF last.rsi >= cfg.ta.rsi_hot \/ last.rsi <= cfg.ta.rsi_cold THEN cfg.ta.rsi_score
    ELSE 0

_vwap_alignment_score(cfg, last) ==
    IF last.vwap = None THEN 0
    ELSE IF last.close >= last.vwap THEN cfg.ta.vwap_alignment
    ELSE -cfg.ta.vwap_alignment

_ta_subscore(cfg, last) ==
    Clamp1(_ema_stack_score(cfg, last) + _adx_score(cfg, last) + _rsi_score(cfg, last)
           + _vwap_alignment_score(cfg, last))

Abs(x) == IF x < 0 THEN -x ELSE x

\* the nearest integer to num / den (den > 0)
RoundDiv(num, den) == (2 * num + den) \div (2 * den)

\* surge = volume / vol_ma_20; the interpolated value is kept to 1/1000
_volume_subscore(cfg, last) ==
    LET vol == last.volume
        vma == last.vol_ma_20
        v == cfg.volume
    IN  IF vma <= 0 THEN 0
        ELSE IF 1000 * vol >= v.surge_hi * vma THEN v.score_hi
        ELSE IF 1000 * vol <= v.surge_lo * vma THEN v.score_lo
        ELSE IF vol >= vma
             THEN RoundDiv((vol - vma) * 1000 * v.score_hi, vma * Max(v.surge_hi - 1000, 1))
             ELSE -RoundDiv((vma - vol) * 1000 * Abs(v.score_lo),
                            vma * Max(1000 - v.surge_lo, 1))

\* atr_ma is the rolling mean of the atr column at the last row
_volatility_subscore(cfg, last) ==
    LET v == cfg.volatility
        ema21 == IF last.ema_21 # 0 THEN last.ema_21 ELSE last.close
        hot == IF 1000 * last.atr >= v.hot_ratio * last.atr_ma THEN v.score_hot
               ELSE IF 1000 * last.atr <= v.cold_ratio * last.atr_ma THEN v.score_cold
               ELSE 0
        z == IF 1000 * (last.close - ema21) >= v.z_momentum_hi * last.atr THEN v.score_z_hi
             ELSE IF 1000 * (last.close - ema21) <= v.z_momentum_lo * last.atr THEN v.score_z_lo
             ELSE 0
    IN  IF last.atr = None \/ last.atr <= 0 THEN 0
        ELSE Clamp1(hot + z)

\* lines 201-214: the long/short ratio read from metrics["lsr"], or None
LsrVal(lsr) ==
    IF lsr.kind = "list" /\ Len(lsr.items) > 0
    THEN LET last == lsr.items[Len(lsr.items)]
         IN  IF last.kind = "dict"
             THEN IF last.key \in {"longShortRatio", "ratio", "value"} /\ IsFloat(last.v)
                  THEN last.v.v ELSE None
             ELSE IF IsFloat(last) THEN last.v ELSE None
    ELSE None

FundingTerm(cfg, metrics) ==
    LET funding == _safe_last_float(metrics.funding)
    IN  IF funding > 0 THEN cfg.bybit.funding_pos
        ELSE IF funding < 0 THEN cfg.bybit.funding_neg ELSE 0

BasisTerm(cfg, metrics) ==
    LET basis == _safe_last_float(metrics.basis)
    IN  IF basis > 0 THEN cfg.bybit.basis_pos
        ELSE IF basis < 0 THEN cfg.bybit.basis_neg ELSE 0

LsrTerm(cfg, metrics) ==
    LET lsr_val == LsrVal(metrics.lsr)
    IN  IF lsr_val = None THEN 0
        ELSE IF lsr_val > 1000 THEN cfg.bybit.lsr_pos
        ELSE IF lsr_val < 1000 THEN cfg.bybit.lsr_neg ELSE 0

_bybit_data_subscore(cfg, metrics) ==
    Clamp1(FundingTerm(cfg, metrics) + BasisTerm(cfg, metrics) + LsrTerm(cfg, metrics))

\* round(total, 2) for total = num / 1000000: in 1/100
RoundTotal(num) == RoundDiv(num, 10000)

score_signal(cfg, last, metrics) ==
    LET ta == _ta_subscore(cfg, last)
        volm == _volume_subscore(cfg, last)
        vola == _volatility_subscore(cfg, last)
        byb == _bybit_data_subscore(cfg, metrics)
        w == cfg.weights
    IN  [total |-> RoundTotal(ta * w.TA + byb * w.BybitData + volm * w.Volume
                              + vola * w.Volatility),
         breakdown |-> [TA |-> ta, BybitData |-> byb, Volume |-> volm, Volatility |-> vola]]

\* ------------------------------------------------------------ regime.py
\* basis is in 1/10000000, so that the 1e-6 of line 45 is 10 units
ADX_TREND == 25
ADX_MEANREV == 18
BASIS_EPS == 10
OI_WINDOW == 10

RECURSIVE SumSeq(_)
SumSeq(q) == IF q = <<>> THEN 0 ELSE q[1] + SumSeq(Tail(q))

\* seq[-n:]
LastN(q, n) == IF Len(q) <= n THEN q ELSE SubSeq(q, Len(q) - n + 1, Len(q))

\* lines 31-36 for one element x: <<"skip">> (v is None), <<"val", float(v)>>
\* or <<"raise">>
OiValue(x) ==
    LET v == IF x.kind = "dict"
             THEN IF x.key = "openInterest" THEN x.v ELSE MNone
             ELSE IF x.kind = "list"
             THEN IF Len(x.items) > 1 THEN x.items[2] ELSE MNone
             ELSE MBad                              \* len(x) or x[1] raises
    IN  IF x.kind \notin {"dict", "list"} THEN <<"raise">>
        ELSE IF v.kind = "none" THEN <<"skip">>
        ELSE IF IsFloat(v) THEN <<"val", v.v>>
        ELSE <<"raise">>

\* lines 28-36: vals, or <<"raise">> if the normalisation raised
RECURSIVE OiVals(_)
OiVals(q) ==
    IF q = <<>> THEN <<"ok", <<>>>>
    ELSE LET head == OiValue(q[1])
             rest == OiVals(Tail(q))
         IN  IF head[1] = "raise" \/ rest[1] = "raise" THEN <<"raise">>
             ELSE IF head[1] = "skip" THEN rest
             ELSE <<"ok", <<head[2]>> \o rest[2]>>

\* the normalisation of the open-interest series raised (caught at line 39)
OiError(oi_list) ==
    \/ oi_list.kind # "list"
    \/ OiVals(LastN(oi_list.items, OI_WINDOW))[1] = "raise"

\* lines 25-40: oi_rising
OiRising(oi_list) ==
    IF OiError(oi_list) THEN FALSE
    ELSE LET vals == OiVals(LastN(oi_list.items, OI_WINDOW))[2]
             n == Len(vals)
         IN  n >= 2 /\ vals[n] * (n - 1) > SumSeq(SubSeq(vals, 1, n - 1))

\* line 21
TrendStack(last) == last.ema_9 > last.ema_21 /\ last.ema_21 > last.ema_50

\* a trend strength test that admits the threshold itself
StrongAdxInclusive(last) == last.adx # None /\ last.adx >= ADX_TREND

\* line 22: adx None is NaN
StrongAdx(last) == last.adx # None /\ last.adx > ADX_TREND

\* line 23
BasisPos(basis) == basis.kind # "none" /\ basis.v > 0

\* a flat-basis test without the epsilon: only an absent basis is flat
BasisFlatOnlyAbsent(basis) == basis.kind = "none"

\* line 45
BasisFlat(basis) == basis.kind = "none" \/ Abs(basis.v) < BASIS_EPS

\* "raise" stands for an exception leaving the function: a basis that is
\* neither None nor a number fails the comparison of line 23
detect_regime(last, metrics) ==
    IF last.empty THEN "neutral"
    ELSE IF metrics.basis.kind \notin {"none", "num"} THEN "raise"
    ELSE IF StrongAdx(last) /\ TrendStack(last)
            /\ (BasisPos(metrics.basis) \/ OiRising(metrics.oi)) THEN "trend"
    ELSE IF last.adx # None /\ last.adx < ADX_MEANREV /\ BasisFlat(metrics.basis)
         THEN "mean-reversion"
    ELSE "neutral"

\* --------------------------------------- score_signal and detect_regime
\* analyze_once (bot.py 158-165) for bounded feature rows, metrics and
\* configurations.
BaseRow ==
    [empty |-> FALSE, ema_9 |-> 103, ema_21 |-> 101, ema_50 |-> 100, adx |-> 30,
     rsi |-> 50, close |-> 102, vwap |-> 100, volume |-> 125, vol_ma_20 |-> 100,
     atr |-> 2, atr_ma |-> 2]

BaseMetrics == [funding |-> MNone, basis |-> MNone, lsr |-> MNone, oi |-> MList(<<>>)]

CfgSet == {_DEFAULT_CFG, StrongCfg}
EmaSet == {<<103, 101, 100>>, <<100, 103, 104>>, <<102, 102, 102>>}
VolumeSet == {<<0, 0>>, <<50, 100>>, <<85, 100>>, <<125, 100>>, <<200, 100>>}
AtrMaSet == {<<None, 0>>, <<2, 1>>, <<1, 2>>, <<2, 2>>}
AdxSet == {None, 10, 18, 25, 30}
FundingSet == {MNone, MList(<<>>), MNum(1), MNum(-1), MList(<<MNum(-1), MNum(1)>>), MBad}
BasisSet == {MNone, MNum(0), MNum(5), MNum(-5), MNum(10), MNum(5000000), MNum(-5000000)}
LsrSet ==
    {MNone, MList(<<>>), MNum(1200), MList(<<MNum(800)>>), MList(<<MBad>>),
     MList(<<MDict("longShortRatio", MNum(1200))>>), MList(<<MDict("other", MNum(1200))>>),
     MList(<<MDict("ratio", MBad)>>), MList(<<MDict("value", MNum(1000))>>)}
OI(v) == MDict("openInterest", v)
OiSet ==
    {MNone, MList(<<>>), MNum(7),
     MList(<<OI(MNum(5))>>),
     MList(<<OI(MNum(5)), OI(MNum(7))>>),
     MList(<<OI(MNum(7)), OI(MNum(5))>>),
     MList(<<OI(MNum(5)), OI(MNum(5))>>),
     MList(<<MList(<<MNum(1), MNum(5)>>), MList(<<MNum(2), MNum(7)>>)>>),
     MList(<<OI(MNum(5)), OI(MNum(7)), MDict("other", MNum(1))>>),
     MList(<<OI(MNum(5)), OI(MNum(7)), MList(<<MNum(3)>>)>>),
     MList(<<OI(MNum(5)), MNum(6), OI(MNum(7))>>),
     MList(<<OI(MNum(5)), OI(MBad), OI(MNum(7))>>),
     MList(<<OI(MNum(5)), OI(MNum(7)), MNone>>),
     MList(<<OI(MNum(90)), OI(MNum(5)), OI(MNum(5)), OI(MNum(5)), OI(MNum(5)), OI(MNum(5)),
             OI(MNum(5)), OI(MNum(5)), OI(MNum(5)), OI(MNum(5)), OI(MNum(7))>>)}

ScoreRowSet ==
    {[BaseRow EXCEPT !.ema_9 = e[1], !.ema_21 = e[2], !.ema_50 = e[3], !.adx = a, !.rsi = r,
                     !.vwap = v, !.volume = vo[1], !.vol_ma_20 = vo[2],
                     !.atr = at[1], !.atr_ma = at[2]] :
        e \in EmaSet, a \in {None, 30}, r \in {50, 75}, v \in {None, 100, 105},
        vo \in VolumeSet, at \in AtrMaSet}

RegimeRowSet ==
    {[BaseRow EXCEPT !.ema_9 = e[1], !.ema_21 = e[2], !.ema_50 = e[3], !.adx = a] :
        e \in EmaSet, a \in AdxSet} \cup {[BaseRow EXCEPT !.empty = TRUE]}

\* many rows and both configurations with few metrics
ScoreInputs ==
    {[cfg |-> c, last |-> l, metrics |-> [BaseMetrics EXCEPT !.basis = b, !.lsr = r]] :
        c \in CfgSet, l \in ScoreRowSet, b \in {MNone, MNum(5000000)},
        r \in {MNone, MList(<<MDict("longShortRatio", MNum(1200))>>)}}

\* one row with many metrics, well-formed and not
MetricInputs ==
    {[cfg |-> c, last |-> BaseRow, metrics |-> [funding |-> f, basis |-> b, lsr |-> r, oi |-> o]] :
        c \in CfgSet, f \in FundingSet, b \in BasisSet \cup {MList(<<>>)}, r \in LsrSet,
        o \in OiSet}

\* the rows and metrics the regime rules read
RegimeInputs ==
    {[cfg |-> _DEFAULT_CFG, last |-> l, metrics |-> [BaseMetrics EXCEPT !.basis = b, !.oi = o]] :
        l \in RegimeRowSet, b \in BasisSet, o \in OiSet}

\* the row and metrics that earn every positive amount at once
BestInputs ==
    {[cfg |-> c,
      last |-> [BaseRow EXCEPT !.ema_21 = 100, !.ema_50 = 99, !.volume = 200, !.atr_ma = 1],
      metrics |-> [BaseMetrics EXCEPT !.funding = MNum(1), !.basis = MNum(5000000),
                                      !.lsr = MList(<<MNum(1200)>>)]] : c \in CfgSet}

AnalyzeInit ==
    /\ TRADING_ACTIVE = TRUE
    /\ pc = "idle"
    /\ cache = EmptyState
    /\ file = EmptyState
    /\ LAST_ENTRY_TS = None
    /\ LAST_ADD_TS = None
    /\ prev = NoPrev
    /\ exPos = Flat
    /\ trailing = "atr"
    /\ \E in \in ScoreInputs \cup MetricInputs \cup RegimeInputs \cup BestInputs :
          cyc = [cfg |-> in.cfg, last |-> in.last, metrics |-> in.metrics,
                 scored |-> None, regime |-> "none"]
    /\ calls = <<>>
    /\ journal = <<>>
    /\ observed = FALSE
    /\ legs = NoLegs
    /\ faults = 0
    /\ on_seen = FALSE

\* bot.py 164: total, breakdown = score_signal(df, metrics)
ScoreSignal ==
    /\ pc = "idle"
    /\ ~cyc.last.empty
    /\ cyc' = [cyc EXCEPT !.scored = score_signal(cyc.cfg, cyc.last, cyc.metrics)]
    /\ pc' = "scored"
    /\ UNCHANGED <<TRADING_ACTIVE, cache, file, LAST_ENTRY_TS, LAST_ADD_TS, prev, exPos,
                   trailing, calls, journal, observed, legs, faults, on_seen>>

\* bot.py 165: regime = detect_regime(df, metrics); an empty frame is only
\* ever given to detect_regime
DetectRegime ==
    /\ pc = "scored" \/ (pc = "idle" /\ cyc.last.empty)
    /\ cyc' = [cyc EXCEPT !.regime = detect_regime(cyc.last, cyc.metrics)]
    /\ pc' = "done"
    /\ UNCHANGED <<TRADING_ACTIVE, cache, file, LAST_ENTRY_TS, LAST_ADD_TS, prev, exPos,
                   trailing, calls, journal, observed, legs, faults, on_seen>>

AnalyzeNext == ScoreSignal \/ DetectRegime

AnalyzeSpec == AnalyzeInit /\ [][AnalyzeNext]_vars

\* C23: for every feature row, metrics and configured amounts each of the
\* four sub-scores of score_signal lies in [-1, 1] and the absolute value of
\* the weighted total is at most the sum of the absolute weights.
SubScoresBounded ==
    pc \in {"scored", "done"} /\ ~cyc.last.empty =>
        LET b == cyc.scored.breakdown
            w == cyc.cfg.weights
        IN  /\ \A k \in {"TA", "BybitData", "Volume", "Volatility"} : Abs(b[k]) <= 1000
            /\ 10 * Abs(cyc.scored.total)
                  <= Abs(w.TA) + Abs(w.BybitData) + Abs(w.Volume) + Abs(w.Volatility)

\* C24: a funding rate, basis or long/short ratio that is None or empty adds
\* exactly zero to the microstructure sub-score, and an error while
\* normalising the open-interest series makes detect_regime answer as for a
\* series that is not rising, instead of propagating.
AbsentMetricsAreNeutral ==
    LET Absent(m) == m.kind = "none" \/ (m.kind = "list" /\ m.items = <<>>)
        c == cyc.cfg
        m == cyc.metrics
    IN  /\ pc \in {"scored", "done"} /\ ~cyc.last.empty =>
            LET byb == cyc.scored.breakdown.BybitData
            IN  /\ Absent(m.funding) => byb = Clamp1(BasisTerm(c, m) + LsrTerm(c, m))
                /\ Absent(m.basis) => byb = Clamp1(FundingTerm(c, m) + LsrTerm(c, m))
                /\ Absent(m.lsr) => byb = Clamp1(FundingTerm(c, m) + BasisTerm(c, m))
                /\ Absent(m.funding) /\ Absent(m.basis) /\ Absent(m.lsr) => byb = 0
        /\ pc = "done" /\ OiError(m.oi) =>
            cyc.regime = detect_regime(cyc.last, [m EXCEPT !.oi = MList(<<>>)])

\* an empty funding list, no basis and no ratio scored zero, and a series
\* with an element of unexpected shape kept a strong bullish row from trend
AbsentMetricsAreNeutralSeen ==
    /\ pc = "done"
    /\ cyc.metrics.funding = MList(<<>>)
    /\ cyc.metrics.basis = MNone
    /\ cyc.metrics.lsr = MNone
    /\ cyc.scored.breakdown.BybitData = 0
    /\ cyc.metrics.oi = MList(<<OI(MNum(5)), MNum(6), OI(MNum(7))>>)
    /\ StrongAdx(cyc.last) /\ TrendStack(cyc.last)
    /\ cyc.regime = "neutral"

MeanReversionIffRule ==
    (pc = "done" /\ cyc.metrics.basis.kind \in {"none", "num"}) =>
        LET last == cyc.last
            basis == cyc.metrics.basis
            calm == /\ ~last.empty
                    /\ last.adx # None /\ last.adx < 18
                    /\ basis.kind = "none" \/ (basis.v < 10 /\ basis.v > -10)
        IN  /\ cyc.regime \in {"trend", "mean-reversion", "neutral"}
            /\ cyc.regime # "trend" =>
                  /\ cyc.regime = "mean-reversion" <=> calm
                  /\ cyc.regime = "neutral" <=> ~calm
            /\ (last.empty \/ last.adx = None) => cyc.regime = "neutral"
            /\ cyc.regime = "trend" => ~calm
            /\ cyc.regime = detect_regime(last, cyc.metrics)

\* a weak index with a basis just inside the epsilon gave mean-reversion
MeanReversionIffRuleSeen ==
    /\ pc = "done"
    /\ cyc.last.adx = 10
    /\ cyc.metrics.basis = MNum(5)
    /\ cyc.regime = "mean-reversion"

\* -------------------------------------------------------- indicators.py
\* _supertrend, one period per step.  Prices are integers; hl2 = (high +
\* low) / 2 and the half range (high - low) / 2 are drawn so that low <= close
\* <= high.  The ATR is the library's value for the period: 0 in the first
\* period (its warm-up) and any value of AtrBarSet afterwards.
ST_MULTIPLIER == 3

Hl2Set == {10, 11, 12}
HalfRangeSet == {0, 1}
AtrBarSet == {0, 1}

\* the candles of one period: hl2 and close with low <= close <= high
CandleSet ==
    {[hl2 |-> m, close |-> c] : m \in Hl2Set, c \in 9..13} \cap
    {k \in [hl2 : Hl2Set, close : 9..13] :
        \E h \in HalfRangeSet : k.hl2 - h <= k.close /\ k.close <= k.hl2 + h}

\* lines 37-38
BasicUb(hl2, atr) == hl2 + ST_MULTIPLIER * atr
BasicLb(hl2, atr) == hl2 - ST_MULTIPLIER * atr

\* lines 45-48, p the previous period
FinalUb(p, basic_ub) ==
    IF p.close > p.final_ub THEN basic_ub ELSE Min(basic_ub, p.final_ub)

\* lines 51-54
FinalLb(p, basic_lb) ==
    IF p.close < p.final_lb THEN basic_lb ELSE Max(basic_lb, p.final_lb)

\* lines 65-80: <<st_line, st_dir>> of the period
LineDir(p, close, final_ub, final_lb) ==
    IF p.st_line = p.final_ub /\ close <= final_ub THEN <<final_ub, -1>>
    ELSE IF p.st_line = p.final_ub /\ close > final_ub THEN <<final_lb, 1>>
    ELSE IF p.st_line = p.final_lb /\ close >= final_lb THEN <<final_lb, 1>>
    ELSE IF p.st_line = p.final_lb /\ close < final_lb THEN <<final_ub, -1>>
    ELSE <<final_lb, 1>>

\* lines 40-41 and 60-63: the first period
FirstPeriod(k) ==
    [close |-> k.close, final_ub |-> BasicUb(k.hl2, 0), final_lb |-> BasicLb(k.hl2, 0),
     st_line |-> BasicLb(k.hl2, 0), st_dir |-> 1]

\* one iteration of both loops for candle k after the period p
NextPeriod(p, k, atr) ==
    LET ub == FinalUb(p, BasicUb(k.hl2, atr))
        lb == FinalLb(p, BasicLb(k.hl2, atr))
        ld == LineDir(p, k.close, ub, lb)
    IN  [close |-> k.close, final_ub |-> ub, final_lb |-> lb, st_line |-> ld[1], st_dir |-> ld[2]]

\* cyc holds the period just computed (bar), the one before it (before) and
\* whether bar is the first period
SupertrendInit ==
    /\ TRADING_ACTIVE = FALSE
    /\ pc = "idle"
    /\ cache = EmptyState
    /\ file = EmptyState
    /\ LAST_ENTRY_TS = None
    /\ LAST_ADD_TS = None
    /\ prev = NoPrev
    /\ exPos = Flat
    /\ trailing = "supertrend"
    /\ \E k \in CandleSet :
          cyc = [first |-> TRUE, bar |-> FirstPeriod(k), before |-> FirstPeriod(k)]
    /\ calls = <<>>
    /\ journal = <<>>
    /\ observed = FALSE
    /\ legs = NoLegs
    /\ faults = 0
    /\ on_seen = FALSE

Period ==
    /\ \E k \in CandleSet, atr \in AtrBarSet :
          cyc' = [first |-> FALSE, bar |-> NextPeriod(cyc.bar, k, atr), before |-> cyc.bar]
    /\ UNCHANGED <<TRADING_ACTIVE, pc, cache, file, LAST_ENTRY_TS, LAST_ADD_TS, prev, exPos,
                   trailing, calls, journal, observed, legs, faults, on_seen>>

SupertrendNext == Period

SupertrendSpec == SupertrendInit /\ [][SupertrendNext]_vars

\* C27: the final upper band of a period is at most the one of the period
\* before, and the final lower band at least the one before, except at a
\* direction flip.
BandsRatchetUnlessFlip ==
    (~cyc.first /\ cyc.bar.st_dir = cyc.before.st_dir) =>
        /\ cyc.bar.final_ub <= cyc.before.final_ub
        /\ cyc.bar.final_lb >= cyc.before.final_lb

\* C28: the first period is on the lower band with direction up; the active
\* line is one of the two final bands of its period, the lower band when the
\* direction is up and the upper band when it is down; the direction changes from down to up only if
\* close > the current upper band and from up to down only if close < the
\* current lower band.
DirectionFlipsOnlyOnCross ==
    LET b == cyc.bar
        p == cyc.before
    IN  /\ cyc.first => b.st_line = b.final_lb /\ b.st_dir = 1
        /\ b.st_dir = 1 => b.st_line = b.final_lb
        /\ b.st_dir = -1 => b.st_line = b.final_ub
        /\ b.st_dir \in {1, -1}
        /\ (~cyc.first /\ p.st_dir = -1 /\ b.st_dir = 1) => b.close > b.final_ub
        /\ (~cyc.first /\ p.st_dir = 1 /\ b.st_dir = -1) => b.close < b.final_lb

\* ------------------------------------------------- state.py on its own
\* The whole _state_cache (symbol or "limits" -> key -> value) and the JSON
\* document of runtime_state.json.  A Python value is a record with its type
\* t and an integer v; a JSON value is a record with its token j and the
\* literal lit.  json.dump writes None as null, a bool as true / false and a
\* number as a literal that keeps whether it is an int or a float; json.load
\* reads them back.
PyNone == [t |-> "None", v |-> 0]
PyBool(b) == [t |-> "bool", v |-> IF b THEN 1 ELSE 0]
PyFloat(x) == [t |-> "float", v |-> x]
PyInt(n) == [t |-> "int", v |-> n]

SymbolSet == {"BTCUSDT", "ETHUSDT"}
KeySet == {"last_sl", "took_tp1"}
ValueSet == {PyNone, PyBool(TRUE), PyFloat(100)}
LimitKeySet == {"cooldown"}
LimitValueSet == {PyInt(5), PyFloat(100)}

\* json.dump of one value
JsonDump(x) ==
    IF x.t = "None" THEN [j |-> "null", lit |-> <<0, "none">>]
    ELSE IF x.t = "bool" THEN [j |-> IF x.v = 1 THEN "true" ELSE "false", lit |-> <<0, "none">>]
    ELSE [j |-> "number", lit |-> <<x.v, x.t>>]

\* json.load of one value
JsonLoad(y) ==
    IF y.j = "null" THEN PyNone
    ELSE IF y.j = "true" THEN PyBool(TRUE)
    ELSE IF y.j = "false" THEN PyBool(FALSE)
    ELSE IF y.lit[2] = "int" THEN PyInt(y.lit[1])
    ELSE PyFloat(y.lit[1])

NoFile == [exists |-> FALSE, doc |-> [s \in {} |-> 0]]

\* a save that leaves the limits out of the file
SaveSymbolsOnly(st) ==
    [exists |-> TRUE,
     doc |-> [s \in DOMAIN st \ {"limits"} |-> [k \in DOMAIN st[s] |-> JsonDump(st[s][k])]]]

\* save_state: the file is rewritten with the whole cache
save_state(st) ==
    [exists |-> TRUE, doc |-> [s \in DOMAIN st |-> [k \in DOMAIN st[s] |-> JsonDump(st[s][k])]]]

\* load_state: the cache read from the file, empty if there is none
load_state(f) ==
    IF f.exists THEN [s \in DOMAIN f.doc |-> [k \in DOMAIN f.doc[s] |-> JsonLoad(f.doc[s][k])]]
    ELSE [s \in {} |-> 0]

\* get_state(symbol)
get_state(st, symbol) == IF symbol \in DOMAIN st THEN st[symbol] ELSE EmptyState

\* lines 39-41 and 47-49: _state_cache[name][key] = value
Assign(st, name, key, value) ==
    [s \in (DOMAIN st) \cup {name} |->
        IF s = name THEN set_state(get_state(st, name), key, value) ELSE st[s]]

StateInit ==
    /\ TRADING_ACTIVE = FALSE
    /\ pc = "idle"
    /\ cache = load_state(NoFile)
    /\ file = NoFile
    /\ LAST_ENTRY_TS = None
    /\ LAST_ADD_TS = None
    /\ prev = NoPrev
    /\ exPos = Flat
    /\ trailing = "atr"
    /\ cyc = [op |-> "load_state", name |-> "", key |-> "", value |-> PyNone,
              before |-> load_state(NoFile)]
    /\ calls = <<>>
    /\ journal = <<>>
    /\ observed = FALSE
    /\ legs = NoLegs
    /\ faults = 0
    /\ on_seen = FALSE

\* set_state(symbol, key, value); cyc keeps the call and the cache before it
SetState ==
    /\ \E symbol \in SymbolSet, key \in KeySet, value \in ValueSet :
        /\ cache' = Assign(cache, symbol, key, value)
        /\ cyc' = [op |-> "set_state", name |-> symbol, key |-> key, value |-> value,
                   before |-> cache]
    /\ file' = save_state(cache')
    /\ UNCHANGED <<TRADING_ACTIVE, pc, LAST_ENTRY_TS, LAST_ADD_TS, prev, exPos, trailing,
                   calls, journal, observed, legs, faults, on_seen>>

\* set_limit(key, value)
SetLimit ==
    /\ \E key \in LimitKeySet, value \in LimitValueSet :
        /\ cache' = Assign(cache, "limits", key, value)
        /\ cyc' = [op |-> "set_limit", name |-> "limits", key |-> key, value |-> value,
                   before |-> cache]
    /\ file' = save_state(cache')
    /\ UNCHANGED <<TRADING_ACTIVE, pc, LAST_ENTRY_TS, LAST_ADD_TS, prev, exPos, trailing,
                   calls, journal, observed, legs, faults, on_seen>>

\* the process starts again and load_state reads the file
LoadState ==
    /\ cache' = load_state(file)
    /\ cyc' = [op |-> "load_state", name |-> "", key |-> "", value |-> PyNone,
               before |-> cache]
    /\ UNCHANGED <<TRADING_ACTIVE, pc, file, LAST_ENTRY_TS, LAST_ADD_TS, prev, exPos,
                   trailing, calls, journal, observed, legs, faults, on_seen>>

StateNext == SetState \/ SetLimit \/ LoadState

StateSpec == StateInit /\ [][StateNext]_vars

\* C29: after a set_state or set_limit call the file holds exactly the whole
\* in-memory state, get_state(symbol)[key] is the value just written, every
\* other symbol and key has the value it had before, and load_state of the
\* file gives the same state; load_state itself restores what was last saved.
WriteThroughState ==
    LET Others(now, before, name, key) ==
            /\ DOMAIN now = (DOMAIN before) \cup {name}
            /\ \A s \in DOMAIN now :
                  /\ DOMAIN now[s] = IF s = name THEN (DOMAIN get_state(before, s)) \cup {key}
                                     ELSE DOMAIN before[s]
                  /\ \A k \in DOMAIN now[s] :
                        (s # name \/ k # key) => now[s][k] = before[s][k]
    IN  /\ cyc.op \in {"set_state", "set_limit"} =>
            /\ file.exists
            /\ DOMAIN file.doc = DOMAIN cache
            /\ \A s \in DOMAIN cache :
                  /\ DOMAIN file.doc[s] = DOMAIN cache[s]
                  /\ \A k \in DOMAIN cache[s] : JsonLoad(file.doc[s][k]) = cache[s][k]
            /\ get_state(cache, cyc.name)[cyc.key] = cyc.value
            /\ Others(cache, cyc.before, cyc.name, cyc.key)
        /\ cyc.op = "load_state" =>
            /\ file.exists => \A s \in DOMAIN file.doc : \A k \in DOMAIN file.doc[s] :
                                 s \in DOMAIN cache /\ k \in DOMAIN cache[s]
                                 /\ JsonDump(cache[s][k]) = file.doc[s][k]
            /\ \A s \in DOMAIN cache : file.exists /\ s \in DOMAIN file.doc
                                       /\ DOMAIN cache[s] = DOMAIN file.doc[s]

\* a limit was written after two symbols had state, and the file has all three
WriteThroughStateSeen ==
    /\ cyc.op = "set_limit"
    /\ cyc.value = PyInt(5)
    /\ DOMAIN cache = SymbolSet \cup {"limits"}
    /\ "last_sl" \in DOMAIN cache["BTCUSDT"]
    /\ cache["BTCUSDT"]["last_sl"] = PyFloat(100)
    /\ "took_tp1" \in DOMAIN cache["ETHUSDT"]
    /\ file.doc["limits"]["cooldown"].lit = <<5, "int">>

\* C30: the trading flag is off when the process starts and changes only by
\* /on (to on) and /off (to off); before the first /on of a process the
\* decision loop makes no exchange call at all, hence submits no entry,
\* scale-in or partial-close order and no stop update.
FlagOnlyByOperator ==
    /\ [](~on_seen => ~TRADING_ACTIVE /\ calls = <<>> /\ pc = "idle")
    /\ [][TRADING_ACTIVE' # TRADING_ACTIVE =>
              \/ on_cmd /\ TRADING_ACTIVE'
              \/ off_cmd /\ ~TRADING_ACTIVE'
              \/ Restart /\ ~TRADING_ACTIVE']_vars

\* a restarted process that was not yet given /on: the exchange holds the
\* position of the earlier run, its record was loaded, and no call was made
FlagOnlyByOperatorSeen ==
    /\ ~on_seen
    /\ ~TRADING_ACTIVE
    /\ exPos # Flat
    /\ cache # EmptyState
    /\ calls = <<>>

\* C31: an entry order is submitted only in a cycle whose position query
\* succeeded and reported no open position; never when the query failed.
EntryOnlyWhenFlatReported ==
    \A i \in DOMAIN calls :
        calls[i].op = "entry" => cyc.query = "ok" /\ ~cyc.has_pos

\* C32: a step in which an entry or a scale-in order succeeds happens only
\* when at least cooldown_sec has passed since the last successful entry and
\* since the last successful scale-in of this process.
SuccessiveOrdersCooled ==
    [][(\/ LAST_ENTRY_TS' = 0 /\ LAST_ENTRY_TS # 0
        \/ LAST_ADD_TS' = 0 /\ LAST_ADD_TS # 0)
       => /\ (LAST_ENTRY_TS = None \/ LAST_ENTRY_TS >= COOLDOWN_SEC)
          /\ (LAST_ADD_TS = None \/ LAST_ADD_TS >= COOLDOWN_SEC)]_vars

\* C33: a cycle that managed an open position ended without an exception
\* raised by update_stops_and_partials, whatever the side, the prices, the
\* features and the persisted state (a long without a persisted stop at a
\* price that reached the breakeven trigger included).
StopsUpdateNeverRaises ==
    pc = "done" /\ HasPosition(cyc) => ~cyc.raised

\* C34: every stop a cycle sent to the exchange and persisted is on the loss
\* side of the cycle's price: strictly below it for a long, strictly above
\* it for a short, whatever the trailing mode.
StopOnLossSide ==
    \A i \in DOMAIN calls :
        calls[i].op = "stop" /\ StopPersisted(calls[i].res)
            => IF calls[i].side = "Buy" THEN calls[i].sl < cyc.price
               ELSE calls[i].sl > cyc.price

\* C35: a step that submits an entry or a scale-in order is taken only while
\* the trading flag is on; after /off the loop submits no order until /on.
NoOrderWhileOff ==
    [][(/\ Len(calls') > Len(calls)
        /\ calls'[Len(calls')].op \in {"entry", "add"})
       => TRADING_ACTIVE]_vars

\* C36: the quantity of every entry or scale-in order is at least the
\* instrument's minimum order quantity, also after the clamp to the
\* available balance.
OrderAtLeastMinQty ==
    pc = "done" =>
        \A i \in DOMAIN calls :
            calls[i].op \in {"entry", "add"} => calls[i].qty >= cyc.min_qty

\* C37: with the default weights and sub-score amounts the total of
\* score_signal never exceeds signal_threshold, so neither the entry gate
\* nor the scale-in gate of the loop opens for it, whatever the balance and
\* the cooldown.
DefaultScoreBelowThreshold ==
    (pc \in {"scored", "done"} /\ ~cyc.last.empty /\ cyc.cfg = _DEFAULT_CFG) =>
        /\ cyc.scored.total <= SIGNAL_THRESHOLD
        /\ ~EntrySignal(cyc.scored.total)
        /\ \A avail \in AvailSet, min_val \in MinValSet :
               ~AddGate(cyc.scored.total, avail, min_val, TRUE)

\* the default configuration scored the row and metrics that earn every
\* positive amount: 0.7, 0.25, 0.6 and 0.5 weigh to 0.54
DefaultScoreBelowThresholdSeen ==
    /\ pc = "scored"
    /\ cyc.cfg = _DEFAULT_CFG
    /\ cyc.scored.breakdown = [TA |-> 700, BybitData |-> 250, Volume |-> 600,
                               Volatility |-> 500]
    /\ cyc.scored.total = 54

====
